---------------------------- MODULE Spec2Model ----------------------------
(***************************************************************************)
(* A model of the red-black TreeSet of hashicorp/go-set (src/treeset.go).  *)
(*                                                                         *)
(* The Go heap is a function from node addresses to node records; a        *)
(* TreeSet is a record of its root, its marker node and its size.  Every   *)
(* method is a pure operator from a world (heap, sets, fault) to a world,  *)
(* written statement by statement from the Go code, and every exported     *)
(* method is one action of the state machine.                              *)
(***************************************************************************)
EXTENDS Integers, Sequences, FiniteSets, TLC

\* ------------------------------------------------------------------ bounds

\* The distinct token ids the callers insert, remove and look up in any order.
MaxKey == 5

\* The token ids of the longest script that inserts 1, 2, ... in ascending
\* order and then removes them in any order.
DeepKeys == 10

\* How many further tokens carry an id that another token already carries
\* (two *token values with the same id compare equal but are not the same).
NumAlias == 1

\* The largest k handed to TopK and BottomK.
MaxK == 3

\* The distinct token ids in the runs with two sets.
PairKey == 3

\* The distinct token ids of two sets that TreeSetFrom builds.
FromKey == 4

\* The longest slice and the longest encoded sequence a caller hands over.
MaxItems == 2

\* The nodes of the trees that are rotated at any node, any number of times.
RotKey == 5

\* ---------------------------------------------------------------- elements

\* The elements are tokens (treeset_test.go): token k > 0 carries the id k,
\* and token -k is another token that carries the id k as well.
Tokens == (1 .. MaxKey) \cup {-k : k \in 1 .. NumAlias}

\* The tokens of the ascending script.
DeepTokens == 1 .. DeepKeys

\* The zero value of the element type (a nil *token).
Zero == 0

tokenId(e) == IF e < 0 THEN -e ELSE e

Cmp(x, y) == IF x < y THEN -1 ELSE IF x > y THEN 1 ELSE 0

compareTokens(a, b) == Cmp(tokenId(a), tokenId(b))

\* The comparison function the set was constructed with.
comparison(a, b) == compareTokens(a, b)

\* -------------------------------------------------------------------- heap

\* The nil pointer.
Nil == 0

\* An address that is neither nil, nor a marker, nor a node reachable from
\* a root: what a pointer to a node that was unlinked is renamed to.
Stale == -9

red == "red"
black == "black"

\* The names of the TreeSets of the program.
SetNames == {"s", "o", "t"}

\* The address of the marker node NewTreeSet allocates for a set.
markerAddr(x) == IF x = "s" THEN -1 ELSE IF x = "o" THEN -2 ELSE -3

Markers == {markerAddr(x) : x \in SetNames}

NoFault == ""

node(element, color) ==
    [element |-> element, color |-> color, parent |-> Nil, left |-> Nil, right |-> Nil]

NewTreeSet(x) == [root |-> Nil, marker |-> markerAddr(x), size |-> 0]

\* node.black(): a nil node is black.
nodeBlack(w, n) == n = Nil \/ w.h[n].color = black

\* node.red()
nodeRed(w, n) == n # Nil /\ w.h[n].color = red

NilDeref == "invalid memory address or nil pointer dereference"

\* A panic: the operation stops where it is, and no later statement runs.
Panic(w, msg) == IF w.fault = NoFault THEN [w EXCEPT !.fault = msg] ELSE w

\* n.f = v; a store through a nil pointer panics.
SetFld(w, n, f, v) ==
    IF w.fault # NoFault THEN w
    ELSE IF n = Nil THEN Panic(w, NilDeref)
    ELSE [w EXCEPT !.h[n][f] = v]

\* s.root = v
SetRoot(w, x, v) == IF w.fault # NoFault THEN w ELSE [w EXCEPT !.ts[x].root = v]

\* s.size = v
SetSize(w, x, v) == IF w.fault # NoFault THEN w ELSE [w EXCEPT !.ts[x].size = v]

compare(w, a, b) == comparison(w.h[a].element, w.h[b].element)

\* ------------------------------------------------------------- primitives

RECURSIVE locate(_, _, _)
locate(w, start, target) ==
    IF start = Nil THEN Nil
    ELSE IF comparison(w.h[start].element, target) < 0 THEN locate(w, w.h[start].right, target)
    ELSE IF comparison(w.h[start].element, target) > 0 THEN locate(w, w.h[start].left, target)
    ELSE start

\* The switch of replaceChild without the case of the right child.
replaceSlotLeftOnly(w, x, parent, previous, next) ==
    IF w.fault # NoFault THEN w
    ELSE IF parent = Nil THEN SetRoot(w, x, next)
    ELSE IF w.h[parent].left = previous THEN SetFld(w, parent, "left", next)
    ELSE Panic(w, "node is not child of its parent")

\* The switch of replaceChild.
replaceSlot(w, x, parent, previous, next) ==
    IF w.fault # NoFault THEN w
    ELSE IF parent = Nil THEN SetRoot(w, x, next)
    ELSE IF w.h[parent].left = previous THEN SetFld(w, parent, "left", next)
    ELSE IF w.h[parent].right = previous THEN SetFld(w, parent, "right", next)
    ELSE Panic(w, "node is not child of its parent")

\* replaceChild and the rotations without the store to the parent field.
SetParentNever(w, c, p) == w

\* if c != nil { c.parent = p }
SetParentIfPresent(w, c, p) == IF c # Nil THEN SetFld(w, c, "parent", p) ELSE w

replaceChild(w, x, parent, previous, next) ==
    SetParentIfPresent(replaceSlot(w, x, parent, previous, next), next, parent)

\* The statements of rotateRight once parent and leftChild are read.
rotateRightLinks(w, x, n, parent, leftChild) ==
    replaceChild(
        SetFld(
            SetFld(
                SetParentIfPresent(
                    SetFld(w, n, "left", w.h[leftChild].right),
                    w.h[leftChild].right, n),
                leftChild, "right", n),
            n, "parent", leftChild),
        x, parent, n, leftChild)

rotateRight(w, x, n) ==
    IF w.fault # NoFault THEN w
    ELSE IF w.h[n].left = Nil THEN Panic(w, NilDeref)
    ELSE rotateRightLinks(w, x, n, w.h[n].parent, w.h[n].left)

\* rotateLeft that does not hand the right child to the parent of n.
rotateLeftLinksWithoutReplace(w, x, n, parent, rightChild) ==
    SetFld(
        SetFld(
            SetParentIfPresent(
                SetFld(w, n, "right", w.h[rightChild].left),
                w.h[rightChild].left, n),
            rightChild, "left", n),
        n, "parent", rightChild)

\* The statements of rotateLeft once parent and rightChild are read.
rotateLeftLinks(w, x, n, parent, rightChild) ==
    replaceChild(
        SetFld(
            SetFld(
                SetParentIfPresent(
                    SetFld(w, n, "right", w.h[rightChild].left),
                    w.h[rightChild].left, n),
                rightChild, "left", n),
            n, "parent", rightChild),
        x, parent, n, rightChild)

rotateLeft(w, x, n) ==
    IF w.fault # NoFault THEN w
    ELSE IF w.h[n].right = Nil THEN Panic(w, NilDeref)
    ELSE rotateLeftLinks(w, x, n, w.h[n].parent, w.h[n].right)

\* siblingOf and uncleOf return the node found and the fault raised, if any.
siblingOf(w, n) ==
    IF n = Nil \/ w.h[n].parent = Nil THEN [n |-> Nil, fault |-> NilDeref]
    ELSE IF n = w.h[w.h[n].parent].left
    THEN [n |-> w.h[w.h[n].parent].right, fault |-> NoFault]
    ELSE IF n = w.h[w.h[n].parent].right
    THEN [n |-> w.h[w.h[n].parent].left, fault |-> NoFault]
    ELSE [n |-> Nil, fault |-> "bug: parent is not a child of its grandparent"]

uncleOf(w, n) ==
    IF n = Nil \/ w.h[n].parent = Nil THEN [n |-> Nil, fault |-> NilDeref]
    ELSE IF w.h[w.h[n].parent].left = n
    THEN [n |-> w.h[w.h[n].parent].right, fault |-> NoFault]
    ELSE IF w.h[w.h[n].parent].right = n
    THEN [n |-> w.h[w.h[n].parent].left, fault |-> NoFault]
    ELSE [n |-> Nil, fault |-> "bug: parent is not a child of our childs grandparent"]

RECURSIVE min(_, _)
min(w, n) == IF w.h[n].left # Nil THEN min(w, w.h[n].left) ELSE n

\* max without the descent to the right.
maxWithoutDescent(w, n) == n

RECURSIVE max(_, _)
max(w, n) == IF w.h[n].right # Nil THEN max(w, w.h[n].right) ELSE n

\* -------------------------------------------------------------- insertion

\* Cases 4 and 5 of rebalanceInsertion: the rotation at the parent when n
\* is an inner grandchild, the rotation at the grandparent, the recolouring.
insertionRotate(w, x, n, parent, grandparent) ==
    IF parent = w.h[grandparent].left
    THEN \* case 4a, 5a
         SetFld(
             SetFld(
                 rotateRight(
                     IF n = w.h[parent].right THEN rotateLeft(w, x, parent) ELSE w,
                     x, grandparent),
                 IF n = w.h[parent].right THEN n ELSE parent, "color", black),
             grandparent, "color", red)
    ELSE \* case 4b, 5b
         SetFld(
             SetFld(
                 rotateLeft(
                     IF n = w.h[parent].left THEN rotateRight(w, x, parent) ELSE w,
                     x, grandparent),
                 IF n = w.h[parent].left THEN n ELSE parent, "color", black),
             grandparent, "color", red)

RECURSIVE rebalanceInsertion(_, _, _)

\* insertionCases whose case 3 recolours and does not go on from the
\* grandparent.
insertionCasesWithoutClimb(w, x, n, parent, grandparent, u) ==
    IF u.fault # NoFault THEN Panic(w, u.fault)
    ELSE IF u.n # Nil /\ nodeRed(w, u.n)
    THEN SetFld(SetFld(SetFld(w, parent, "color", black),
                       grandparent, "color", red),
                u.n, "color", black)
    ELSE insertionRotate(w, x, n, parent, grandparent)

\* rebalanceInsertion once parent, grandparent and uncle are read.
insertionCases(w, x, n, parent, grandparent, u) ==
    IF u.fault # NoFault THEN Panic(w, u.fault)
    \* case 3: uncle is red
    ELSE IF u.n # Nil /\ nodeRed(w, u.n)
    THEN rebalanceInsertion(
             SetFld(SetFld(SetFld(w, parent, "color", black),
                           grandparent, "color", red),
                    u.n, "color", black),
             x, grandparent)
    ELSE insertionRotate(w, x, n, parent, grandparent)

rebalanceInsertion(w, x, n) ==
    IF w.fault # NoFault THEN w
    \* case 1: parent is nil, n is the root
    ELSE IF w.h[n].parent = Nil THEN SetFld(w, n, "color", black)
    ELSE IF nodeBlack(w, w.h[n].parent) THEN w
    \* case 2: no grandparent, the parent is the root
    ELSE IF w.h[w.h[n].parent].parent = Nil THEN SetFld(w, w.h[n].parent, "color", black)
    ELSE insertionCases(w, x, n, w.h[n].parent, w.h[w.h[n].parent].parent,
                        uncleOf(w, w.h[n].parent))

\* The descent loop of insert: the parent found, or that an equal element exists.
RECURSIVE insertDescend(_, _, _, _)
insertDescend(w, n, parent, tmp) ==
    IF tmp = Nil THEN [parent |-> parent, exists |-> FALSE]
    ELSE IF compare(w, n, tmp) < 0 THEN insertDescend(w, n, tmp, w.h[tmp].left)
    ELSE IF compare(w, n, tmp) > 0 THEN insertDescend(w, n, tmp, w.h[tmp].right)
    ELSE [parent |-> tmp, exists |-> TRUE]

\* insertLink with the two sides exchanged.
insertLinkMirrored(w, x, n, parent) ==
    IF parent = Nil THEN SetRoot(w, x, n)
    ELSE IF compare(w, n, parent) < 0 THEN SetFld(w, parent, "right", n)
    ELSE SetFld(w, parent, "left", n)

\* The switch of insert that links n below parent.
insertLink(w, x, n, parent) ==
    IF parent = Nil THEN SetRoot(w, x, n)
    ELSE IF compare(w, n, parent) < 0 THEN SetFld(w, parent, "left", n)
    ELSE SetFld(w, parent, "right", n)

\* s.size++
IncSize(w, x) == SetSize(w, x, w.ts[x].size + 1)

\* A delete that leaves the size as it is.
KeepSize(w, x) == SetSize(w, x, w.ts[x].size)

\* s.size--
DecSize(w, x) == SetSize(w, x, w.ts[x].size - 1)

\* insert that stores the new element over the equal one it found.
insertAtOverwriting(w, x, n, d) ==
    IF d.exists
    THEN [w |-> SetFld(w, d.parent, "element", w.h[n].element), ret |-> FALSE]
    ELSE [w |-> IncSize(
                    rebalanceInsertion(
                        SetFld(insertLink(SetFld(w, n, "color", red), x, n, d.parent),
                               n, "parent", d.parent),
                        x, n),
                    x),
          ret |-> TRUE]

\* insert after the descent.
insertAt(w, x, n, d) ==
    IF d.exists THEN [w |-> w, ret |-> FALSE]
    ELSE [w |-> IncSize(
                    rebalanceInsertion(
                        SetFld(insertLink(SetFld(w, n, "color", red), x, n, d.parent),
                               n, "parent", d.parent),
                        x, n),
                    x),
          ret |-> TRUE]

insert(w, x, n) == insertAt(w, x, n, insertDescend(w, n, Nil, w.ts[x].root))

\* The address of a node allocated next.
NewAddr(w) ==
    LET used == (DOMAIN w.h) \cup {0}
    IN 1 + CHOOSE m \in used : \A a \in used : a <= m

\* &node[T]{element: item, color: c}
Alloc(w, item, c) == [w EXCEPT !.h = (NewAddr(w) :> node(item, c)) @@ w.h]

Insert(w, x, item) == insert(Alloc(w, item, red), x, NewAddr(w))

\* --------------------------------------------------------------- deletion

delete01(w, x, n) ==
    \* node only has left child, replace by left child
    IF w.h[n].left # Nil
    THEN [w |-> replaceChild(w, x, w.h[n].parent, n, w.h[n].left), moved |-> w.h[n].left]
    \* node only has right child, replace by right child
    ELSE IF w.h[n].right # Nil
    THEN [w |-> replaceChild(w, x, w.h[n].parent, n, w.h[n].right), moved |-> w.h[n].right]
    \* node has no children: if node is black replace with marker
    ELSE IF nodeBlack(w, n)
    THEN [w |-> replaceChild(w, x, w.h[n].parent, n, w.ts[x].marker), moved |-> w.ts[x].marker]
    ELSE [w |-> replaceChild(w, x, w.h[n].parent, n, Nil), moved |-> Nil]

fixRedSibling(w, x, n, sibling) ==
    IF n = w.h[w.h[n].parent].left
    THEN rotateLeft(
             SetFld(SetFld(w, sibling, "color", black), w.h[n].parent, "color", red),
             x, w.h[n].parent)
    ELSE rotateRight(
             SetFld(SetFld(w, sibling, "color", black), w.h[n].parent, "color", red),
             x, w.h[n].parent)

\* The first if/else-if of fixBlackSibling: the rotation at the sibling.
fixBlackSiblingInner(w, x, n, sibling) ==
    IF n = w.h[w.h[n].parent].left /\ nodeBlack(w, w.h[sibling].right)
    THEN rotateRight(
             SetFld(SetFld(w, w.h[sibling].left, "color", black), sibling, "color", red),
             x, sibling)
    ELSE IF n # w.h[w.h[n].parent].left /\ nodeBlack(w, w.h[sibling].left)
    THEN rotateLeft(
             SetFld(SetFld(w, w.h[sibling].right, "color", black), sibling, "color", red),
             x, sibling)
    ELSE w

\* The rest of fixBlackSibling: the recolouring and the rotation at the parent.
fixBlackSiblingOuter(w, x, n, sibling) ==
    IF w.fault # NoFault THEN w
    ELSE IF sibling = Nil THEN Panic(w, NilDeref)
    ELSE IF n = w.h[w.h[n].parent].left
    THEN rotateLeft(
             SetFld(
                 SetFld(SetFld(w, sibling, "color", w.h[w.h[n].parent].color),
                        w.h[n].parent, "color", black),
                 w.h[sibling].right, "color", black),
             x, w.h[n].parent)
    ELSE rotateRight(
             SetFld(
                 SetFld(SetFld(w, sibling, "color", w.h[w.h[n].parent].color),
                        w.h[n].parent, "color", black),
                 w.h[sibling].left, "color", black),
             x, w.h[n].parent)

\* The sibling fixBlackSibling goes on with: re-read below the parent when
\* the first step rotated (rotated is whether it did), else the one given.
fixBlackSiblingNext(w, x, n, sibling, rotated) ==
    IF w.fault # NoFault THEN w
    ELSE fixBlackSiblingOuter(w, x, n,
             IF ~rotated THEN sibling
             ELSE IF n = w.h[w.h[n].parent].left THEN w.h[w.h[n].parent].right
             ELSE w.h[w.h[n].parent].left)

fixBlackSibling(w, x, n, sibling) ==
    fixBlackSiblingNext(
        fixBlackSiblingInner(w, x, n, sibling), x, n, sibling,
        \/ n = w.h[w.h[n].parent].left /\ nodeBlack(w, w.h[sibling].right)
        \/ n # w.h[w.h[n].parent].left /\ nodeBlack(w, w.h[sibling].left))

RECURSIVE rebalanceDeletion(_, _, _)

\* deletionRecolor that does not go on from a black parent.
deletionRecolorWithoutClimb(w, x, n) ==
    IF w.fault # NoFault THEN w
    ELSE IF nodeRed(w, w.h[n].parent) THEN SetFld(w, w.h[n].parent, "color", black)
    ELSE w

\* case: black sibling with two black children, after the sibling is made red
deletionRecolor(w, x, n) ==
    IF w.fault # NoFault THEN w
    ELSE IF nodeRed(w, w.h[n].parent) THEN SetFld(w, w.h[n].parent, "color", black)
    ELSE rebalanceDeletion(w, x, w.h[n].parent)

\* rebalanceDeletion once the sibling is black.
deletionCases(w, x, n, sibling) ==
    IF w.fault # NoFault THEN w
    ELSE IF sibling = Nil THEN Panic(w, NilDeref)
    ELSE IF nodeBlack(w, w.h[sibling].left) /\ nodeBlack(w, w.h[sibling].right)
    THEN deletionRecolor(SetFld(w, sibling, "color", red), x, n)
    ELSE fixBlackSibling(w, x, n, sibling)

\* sibling = s.siblingOf(n), after fixRedSibling
deletionResibling(w, x, n) ==
    IF w.fault # NoFault THEN w
    ELSE IF siblingOf(w, n).fault # NoFault THEN Panic(w, siblingOf(w, n).fault)
    ELSE deletionCases(w, x, n, siblingOf(w, n).n)

\* rebalanceDeletion once the sibling is read.
deletionSibling(w, x, n, sb) ==
    IF sb.fault # NoFault THEN Panic(w, sb.fault)
    ELSE IF nodeRed(w, sb.n) THEN deletionResibling(fixRedSibling(w, x, n, sb.n), x, n)
    ELSE deletionCases(w, x, n, sb.n)

rebalanceDeletion(w, x, n) ==
    IF w.fault # NoFault THEN w
    \* base case: node is root
    ELSE IF n = w.ts[x].root THEN SetFld(w, n, "color", black)
    ELSE deletionSibling(w, x, n, siblingOf(w, n))

\* delete that leaves the marker where delete01 put it.
leaveMarker(w, x, moved) == w

\* if moved == s.marker { s.replaceChild(moved.parent, moved, nil) }
removeMarker(w, x, moved) ==
    IF w.fault = NoFault /\ moved = w.ts[x].marker
    THEN replaceChild(w, x, w.h[moved].parent, moved, Nil)
    ELSE w

\* The end of delete with the store of the colour only.
resetMarkerColorOnly(w, x) == SetFld(w, w.ts[x].marker, "color", black)

\* The four stores that end delete.
resetMarker(w, x) ==
    SetFld(
        SetFld(
            SetFld(SetFld(w, w.ts[x].marker, "color", black), w.ts[x].marker, "left", Nil),
            w.ts[x].marker, "right", Nil),
        w.ts[x].marker, "parent", Nil)

\* delete that runs the fixup whatever the colour of the node spliced out.
deleteFixAlways(d, x, removed) ==
    [w |-> resetMarker(
               DecSize(removeMarker(rebalanceDeletion(d.w, x, d.moved), x, d.moved), x),
               x),
     ret |-> TRUE]

\* delete after delete01 spliced out removed: d is what delete01 returned.
deleteFix(d, x, removed) ==
    [w |-> resetMarker(
               DecSize(
                   \* re-balance if the node was black
                   IF d.w.h[removed].color = black
                   THEN removeMarker(rebalanceDeletion(d.w, x, d.moved), x, d.moved)
                   ELSE d.w,
                   x),
               x),
     ret |-> TRUE]

\* delete that splices the successor out and does not copy its element.
deleteNodeWithoutCopy(w, x, n) ==
    IF n = Nil THEN [w |-> w, ret |-> FALSE]
    ELSE IF w.h[n].left = Nil \/ w.h[n].right = Nil
    THEN deleteFix(delete01(w, x, n), x, n)
    ELSE deleteFix(delete01(w, x, min(w, w.h[n].right)), x, min(w, w.h[n].right))

\* delete once the node is located.
deleteNode(w, x, n) ==
    IF n = Nil THEN [w |-> w, ret |-> FALSE]
    ELSE IF w.h[n].left = Nil \/ w.h[n].right = Nil
    \* case where deleted node had zero or one child
    THEN deleteFix(delete01(w, x, n), x, n)
    \* case where node has two children: copy successor data into n,
    \* delete successor
    ELSE deleteFix(
             delete01(SetFld(w, n, "element", w.h[min(w, w.h[n].right)].element),
                      x, min(w, w.h[n].right)),
             x, min(w, w.h[n].right))

delete(w, x, element) == deleteNode(w, x, locate(w, w.ts[x].root, element))

Remove(w, x, item) == delete(w, x, item)

\* ---------------------------------------------------------------- queries

\* infix with a visitor that always answers true: the nodes in visiting order.
RECURSIVE infixAll(_, _)
infixAll(w, n) ==
    IF n = Nil THEN <<>>
    ELSE infixAll(w, w.h[n].left) \o <<n>> \o infixAll(w, w.h[n].right)

\* Slice: ForEach appending every element visited.
Slice(w, x) ==
    LET visited == infixAll(w, w.ts[x].root)
    IN [i \in 1 .. Len(visited) |-> w.h[visited[i]].element]

Size(w, x) == w.ts[x].size

Empty(w, x) == Size(w, x) = 0

Contains(w, x, item) == locate(w, w.ts[x].root, item) # Nil

\* The outcome of a call: the boolean, element or slice returned, or the
\* message of the panic the call ended with.
Returned == [b |-> FALSE, v |-> Zero, l |-> <<>>, panic |-> NoFault]

\* Min that answers the zero value on an empty set.
MinOrZero(w, x) ==
    IF w.ts[x].root = Nil THEN Returned
    ELSE [Returned EXCEPT !.v = w.h[min(w, w.ts[x].root)].element]

Min(w, x) ==
    IF w.ts[x].root = Nil THEN [Returned EXCEPT !.panic = "min: tree is empty"]
    ELSE [Returned EXCEPT !.v = w.h[min(w, w.ts[x].root)].element]

Max(w, x) ==
    IF w.ts[x].root = Nil THEN [Returned EXCEPT !.panic = "max: tree is empty"]
    ELSE [Returned EXCEPT !.v = w.h[max(w, w.ts[x].root)].element]

\* fillLeft that appends whether or not the slice is full.
RECURSIVE fillLeftUnbounded(_, _, _, _)
fillLeftUnbounded(w, n, k, c) ==
    IF n = Nil THEN k
    ELSE fillLeftUnbounded(w, w.h[n].right,
             Append(fillLeftUnbounded(w, w.h[n].left, k, c), w.h[n].element), c)

\* k is the slice filled so far and c its capacity.
RECURSIVE fillLeft(_, _, _, _)
fillLeft(w, n, k, c) ==
    IF n = Nil THEN k
    ELSE LET k1 == IF Len(k) < c THEN fillLeft(w, w.h[n].left, k, c) ELSE k
             k2 == IF Len(k1) < c THEN Append(k1, w.h[n].element) ELSE k1
         IN IF Len(k2) < c THEN fillLeft(w, w.h[n].right, k2, c) ELSE k2

RECURSIVE fillRight(_, _, _, _)
fillRight(w, n, k, c) ==
    IF n = Nil THEN k
    ELSE LET k1 == IF Len(k) < c THEN fillRight(w, w.h[n].right, k, c) ELSE k
             k2 == IF Len(k1) < c THEN Append(k1, w.h[n].element) ELSE k1
         IN IF Len(k2) < c THEN fillRight(w, w.h[n].left, k2, c) ELSE k2

TopK(w, x, n) == fillLeft(w, w.ts[x].root, <<>>, n)

BottomK(w, x, n) == fillRight(w, w.ts[x].root, <<>>, n)

\* ------------------------------------------------------------ addresses

\* The order in which the sets' nodes are renamed.
SetOrder == <<"s", "o", "t">>

RECURSIVE NodesFrom(_, _)
NodesFrom(w, i) ==
    IF i > Len(SetOrder) THEN <<>>
    ELSE infixAll(w, w.ts[SetOrder[i]].root) \o NodesFrom(w, i + 1)

\* Go does not show a node's address, and the collector frees a node no
\* pointer leads to: after a call the nodes reachable from the roots are
\* renamed 1, 2, ... in visiting order and the others are dropped.
Canon(w) ==
    IF w.fault # NoFault THEN w
    ELSE LET seq == SelectSeq(NodesFrom(w, 1), LAMBDA a : a \notin Markers)
             live == {seq[i] : i \in 1 .. Len(seq)}
             ren(a) == IF a = Nil \/ a \in Markers THEN a
                       ELSE IF a \in live THEN CHOOSE i \in 1 .. Len(seq) : seq[i] = a
                       ELSE Stale
             renNode(r) == [r EXCEPT !.parent = ren(@), !.left = ren(@), !.right = ren(@)]
         IN [w EXCEPT
               !.h = [a \in Markers \cup (1 .. Len(seq)) |->
                        IF a \in Markers THEN renNode(w.h[a]) ELSE renNode(w.h[seq[a]])],
               !.ts = [x \in SetNames |-> [w.ts[x] EXCEPT !.root = ren(@)]]]

\* ---------------------------------------------------------- state machine

VARIABLES
    heap,    \* node address -> node
    sets,    \* set name -> TreeSet
    fault,   \* the panic raised inside the tree code, if any
    A,       \* the mathematical set the callers' Insert/Remove calls describe
    B,       \* the same for the second set, o
    op,      \* the last call made
    arg,     \* its argument
    ret,     \* what it returned
    branch,  \* the branch of insert or delete the last call took
    phase,   \* the caller's script: "any", or "fill" then "drain"
    filled,  \* how many elements the script has inserted
    tables   \* the items maps of the HashSets and of the Set

vars == <<heap, sets, fault, A, B, op, arg, ret, branch, phase, filled, tables>>

World == [h |-> heap, ts |-> sets, fault |-> fault]

\* The mathematical set after Insert(v) and after Remove(v): elements that
\* compare equal are one element.
AInsert(S, v) == IF \E a \in S : comparison(a, v) = 0 THEN S ELSE S \cup {v}

ARemove(S, v) == {a \in S : comparison(a, v) # 0}

\* The branch insert takes for item: an equal element exists, or a node is linked.
insertBranch(w, x, item) ==
    IF locate(w, w.ts[x].root, item) # Nil THEN "exists" ELSE "linked"

\* The branch delete takes at node n: how many children n has and the
\* colour of the node that is spliced out (n, or its successor).
deleteBranchAt(w, n) ==
    IF n = Nil THEN "absent"
    ELSE IF w.h[n].left # Nil /\ w.h[n].right # Nil
    THEN "two children, " \o w.h[min(w, w.h[n].right)].color
    ELSE IF w.h[n].left # Nil \/ w.h[n].right # Nil
    THEN "one child, " \o w.h[n].color
    ELSE "no child, " \o w.h[n].color

deleteBranch(w, x, item) == deleteBranchAt(w, locate(w, w.ts[x].root, item))

InitTree ==
    /\ heap = [a \in Markers |-> node(Zero, black)]
    /\ sets = [x \in SetNames |-> NewTreeSet(x)]
    /\ fault = NoFault
    /\ A = {}
    /\ B = {}
    /\ op = "NewTreeSet"
    /\ arg = 0
    /\ ret = Returned
    /\ branch = ""
    /\ filled = 0
    /\ tables = [hash |-> [x \in SetNames |-> <<>>], set |-> <<>>]

\* The caller either makes calls in any order, or
\* runs the fill-then-drain script of TestTreeSet_Remove_int.
Init == InitTree /\ phase \in {"any", "fill"}

\* A mutating call returned r (the world and the boolean) or panicked; c is
\* the world the call leaves.
Returns(r, c, o, a, S, br) ==
    /\ heap' = c.h
    /\ sets' = c.ts
    /\ fault' = c.fault
    /\ ret' = [Returned EXCEPT !.b = (r.ret /\ c.fault = NoFault), !.panic = c.fault]
    /\ A' = S
    /\ B' = B
    /\ tables' = tables
    /\ op' = o
    /\ arg' = a
    /\ branch' = br

Mutates(r, o, a, S, br) == Returns(r, Canon(r.w), o, a, S, br)

DoInsert(item) ==
    /\ fault = NoFault
    /\ Mutates(Insert(World, "s", item), "Insert", item, AInsert(A, item),
               insertBranch(World, "s", item))

DoRemove(item) ==
    /\ fault = NoFault
    /\ Mutates(Remove(World, "s", item), "Remove", item, ARemove(A, item),
               deleteBranch(World, "s", item))

\* A call that reads the set and returns r.
Reads(r, o, a) ==
    /\ fault = NoFault
    /\ ret' = r
    /\ op' = o
    /\ arg' = a
    /\ branch' = ""
    /\ UNCHANGED <<heap, sets, fault, A, B, tables>>

CallInsert(item) == phase = "any" /\ DoInsert(item) /\ UNCHANGED <<phase, filled>>

CallRemove(item) == phase = "any" /\ DoRemove(item) /\ UNCHANGED <<phase, filled>>

\* The caller is free to make a call, or its script has removed everything.
MayAsk == phase = "any" \/ (phase = "drain" /\ A = {})

CallMin == MayAsk /\ Reads(Min(World, "s"), "Min", 0) /\ UNCHANGED <<phase, filled>>

CallMax == MayAsk /\ Reads(Max(World, "s"), "Max", 0) /\ UNCHANGED <<phase, filled>>

CallTopK(k) ==
    /\ phase = "any"
    /\ Reads([Returned EXCEPT !.l = TopK(World, "s", k)], "TopK", k)
    /\ UNCHANGED <<phase, filled>>

CallBottomK(k) ==
    /\ phase = "any"
    /\ Reads([Returned EXCEPT !.l = BottomK(World, "s", k)], "BottomK", k)
    /\ UNCHANGED <<phase, filled>>

\* The script inserts distinct elements: up to MaxKey of them in any order,
\* or 1, 2, ... up to DeepKeys in ascending order.
FillInsert(item) ==
    /\ phase = "fill"
    /\ \A a \in A : comparison(a, item) # 0
    /\ \/ item \in 1 .. MaxKey /\ A \subseteq 1 .. MaxKey
       \/ item = filled + 1 /\ A = 1 .. filled
    /\ DoInsert(item)
    /\ filled' = filled + 1
    /\ UNCHANGED phase

\* The script goes on to remove what it inserted.
Reshuffle ==
    /\ phase = "fill"
    /\ filled > 0
    /\ phase' = "drain"
    /\ UNCHANGED <<heap, sets, fault, A, B, op, arg, ret, branch, filled, tables>>

DrainRemove(item) ==
    /\ phase = "drain"
    /\ item \in A
    /\ DoRemove(item)
    /\ UNCHANGED <<phase, filled>>

Next ==
    \/ \E item \in Tokens : CallInsert(item)
    \/ \E item \in Tokens : CallRemove(item)
    \/ CallMin
    \/ CallMax
    \/ \E k \in 0 .. MaxK : CallTopK(k)
    \/ \E k \in 0 .. MaxK : CallBottomK(k)
    \/ \E item \in DeepTokens : FillInsert(item)
    \/ Reshuffle
    \/ \E item \in DeepTokens : DrainRemove(item)

Spec == Init /\ [][Next]_vars

\* -------------------------------------------------------------- properties

S == "s"

Root == sets[S].root

\* The nodes reachable from n by child links.
RECURSIVE Reach(_, _)
Reach(w, n) ==
    IF n = Nil THEN {}
    ELSE {n} \cup Reach(w, w.h[n].left) \cup Reach(w, w.h[n].right)

\* The numbers of black nodes met on the paths from n down to an absent child.
RECURSIVE BlackCounts(_, _)
BlackCounts(w, n) ==
    IF n = Nil THEN {0}
    ELSE {c + (IF w.h[n].color = black THEN 1 ELSE 0) :
            c \in BlackCounts(w, w.h[n].left) \cup BlackCounts(w, w.h[n].right)}

BlackHeight == CHOOSE c \in BlackCounts(World, Root) : TRUE

RedNodes == {n \in Reach(World, Root) : heap[n].color = red}

Inserted == op = "Insert" /\ ret.b

Removed == op = "Remove" /\ ret.b

\* C1: after every completed Insert or Remove, every path from the root to
\* an absent child passes through the same number of black nodes.
C1_BlackBalanced ==
    op \in {"Insert", "Remove"} => Cardinality(BlackCounts(World, Root)) = 1

\* C1 witness: a Remove that spliced out a black node has completed on a
\* tree that still has black height 2 or more and a red node.
C1_Witness ==
    /\ Removed
    /\ branch \in {"no child, black", "one child, black", "two children, black"}
    /\ BlackHeight >= 2
    /\ RedNodes # {}

NoRedRed ==
    \A n \in RedNodes :
        /\ nodeBlack(World, heap[n].left)
        /\ nodeBlack(World, heap[n].right)

\* C2: after every completed Insert or Remove the root, if there is one, is
\* black, and no red node has a red child.
C2_RootBlackNoRedRed ==
    op \in {"Insert", "Remove"} => (nodeBlack(World, Root) /\ NoRedRed)

\* C2 witness: an Insert has linked a node below the root's children, and
\* the tree holds red nodes.
C2_Witness ==
    /\ Inserted
    /\ sets[S].size >= 5
    /\ Cardinality(RedNodes) >= 2

StrictlyAscending(l) ==
    \A i \in 1 .. Len(l) - 1 : comparison(l[i], l[i + 1]) < 0

\* Binary search tree: whatever is below n on the left compares less than
\* n, whatever is below it on the right compares greater.
IsBST ==
    \A n \in Reach(World, Root) :
        /\ \A m \in Reach(World, heap[n].left) : compare(World, m, n) < 0
        /\ \A m \in Reach(World, heap[n].right) : compare(World, m, n) > 0

\* C3: after every completed Insert or Remove the in-order traversal (Slice)
\* is strictly increasing under the comparator: the tree is a binary search
\* tree and no two stored elements compare equal.
C3_SliceAscending ==
    op \in {"Insert", "Remove"} => (StrictlyAscending(Slice(World, S)) /\ IsBST)

\* C3 witness: a Remove of a node with two children has completed and four
\* or more elements are left.
C3_Witness ==
    /\ Removed
    /\ branch \in {"two children, red", "two children, black"}
    /\ Len(Slice(World, S)) >= 4

\* C4: after every completed Insert or Remove, Size() is the number of nodes
\* reachable from the root and the length of Slice(); an Insert of an
\* element already present leaves Size() as it was.
C4_SizeCounts ==
    op \in {"Insert", "Remove"} =>
        /\ Size(World, S) = Cardinality(Reach(World, Root))
        /\ Size(World, S) = Len(Slice(World, S))
        /\ Size(World, S) = Cardinality(A)

\* C4 witness: an Insert of an element already present has returned and the
\* set holds three or more elements.
C4_Witness ==
    /\ op = "Insert"
    /\ branch = "exists"
    /\ Size(World, S) >= 3

AllTokens == Tokens \cup DeepTokens

Range(l) == {l[i] : i \in 1 .. Len(l)}

\* A step that is a call of Insert or of Remove.
IsCall(o) == op' = o /\ phase' = phase

\* v compares equal to an element of the in-order traversal.
Stored(v) == \E e \in Range(Slice(World, S)) : comparison(e, v) = 0

\* The set is in step with the mathematical set A.
InStep ==
    /\ \A v \in AllTokens : Contains(World, S, v) <=> (\E a \in A : comparison(a, v) = 0)
    /\ Range(Slice(World, S)) = A
    /\ StrictlyAscending(Slice(World, S))

\* Insert and Remove return true exactly when the call changed A.
ReturnTellsChange == (IsCall("Insert") \/ IsCall("Remove")) => (ret'.b <=> A' # A)

\* C5: the TreeSet stays in step with the mathematical set A that Insert(v)
\* adds v to and Remove(v) deletes v from: Contains(v) is true exactly when
\* v is in A, Slice() is A in ascending order, and each Insert and Remove
\* returns true exactly when it changed A.
C5_RefinesSet == [](InStep) /\ [][ReturnTellsChange]_vars

\* C5 witness: a Remove of an element stored at a node with two children
\* has returned true, and a token inserted under an id another token also
\* carries is still stored.
C5_Witness ==
    /\ Removed
    /\ branch = "two children, black"
    /\ phase = "any"
    /\ \E a \in A : a < 0

\* C6: an Insert of v when an element comparing equal to v is stored, and a
\* Remove of v when none is, return false and leave size, elements, shape
\* and colours as they were.
C6_NoChangeCalls ==
    [][((IsCall("Insert") /\ Stored(arg')) \/ (IsCall("Remove") /\ ~Stored(arg')))
          => (~ret'.b /\ heap' = heap /\ sets' = sets)]_vars

\* C6 witness: an Insert of a token has returned false because another
\* token with its id is stored, in a set of three or more elements.
C6_Witness ==
    /\ op = "Insert"
    /\ ~ret.b
    /\ branch = "exists"
    /\ arg \notin A
    /\ Cardinality(A) >= 3

\* C7: in the script that inserts n distinct elements and then removes
\* them, every Remove returns true and leaves a red-black tree, and once
\* all are removed the set is empty and contains none of them.
C7_DrainEmpties ==
    (phase = "drain" /\ op = "Remove") =>
        /\ ret.b
        /\ Cardinality(BlackCounts(World, Root)) = 1
        /\ nodeBlack(World, Root)
        /\ NoRedRed
        /\ A = {} => /\ Size(World, S) = 0
                     /\ Root = Nil
                     /\ \A v \in AllTokens : ~Contains(World, S, v)

\* C7 witness: the script inserted DeepKeys elements and the last of them
\* has been removed.
C7_Witness ==
    /\ phase = "drain"
    /\ Removed
    /\ filled = DeepKeys
    /\ A = {}

Last(l) == l[Len(l)]

\* C8: on a non-empty set Min() returns the first element of Slice() and
\* Max() returns the last.
C8_MinMax ==
    Len(Slice(World, S)) > 0 =>
        /\ op = "Min" => (ret.panic = NoFault /\ ret.v = Slice(World, S)[1])
        /\ op = "Max" => (ret.panic = NoFault /\ ret.v = Last(Slice(World, S)))

\* C8 witness: Max() has returned on a set of four or more elements whose
\* greatest element is not at the root.
C8_Witness ==
    /\ op = "Max"
    /\ Len(Slice(World, S)) >= 4
    /\ ret.v # heap[Root].element

\* C9: Min() and Max() on an empty set panic and return no element.
C9_EmptyPanics ==
    Len(Slice(World, S)) = 0 =>
        /\ op = "Min" => (ret.panic = "min: tree is empty" /\ ret.v \notin AllTokens)
        /\ op = "Max" => (ret.panic = "max: tree is empty" /\ ret.v \notin AllTokens)

\* C9 witness: Min() has panicked on a set that the script emptied by
\* removing each of the three or more elements it had inserted.
C9_Witness ==
    /\ op = "Min"
    /\ phase = "drain"
    /\ filled >= 3
    /\ ret.panic # NoFault

Least(a, b) == IF a < b THEN a ELSE b

\* The last m elements of l, last first.
LastDescending(l, m) == [i \in 1 .. m |-> l[Len(l) - i + 1]]

TopKAnswer ==
    op = "TopK" =>
        ret.l = SubSeq(Slice(World, S), 1, Least(arg, Size(World, S)))

BottomKAnswer ==
    op = "BottomK" =>
        ret.l = LastDescending(Slice(World, S), Least(arg, Size(World, S)))

\* C10: TopK(k) returns the first min(k, Size()) elements of Slice() in
\* ascending order, BottomK(k) the last min(k, Size()) in descending order,
\* and neither call changes the set.
C10_TopBottomK ==
    /\ [](TopKAnswer /\ BottomKAnswer)
    /\ [][(IsCall("TopK") \/ IsCall("BottomK")) => (heap' = heap /\ sets' = sets)]_vars

\* C10 witness: BottomK(k) has returned on a set with more than k >= 2
\* elements.
C10_Witness ==
    /\ op = "BottomK"
    /\ arg >= 2
    /\ Size(World, S) > arg
    /\ Len(ret.l) = arg

\* ------------------------------------------------------- nearest elements

\* node.get: the element of n and true, or the zero value and false.
get(w, n) ==
    IF n = Nil THEN Returned
    ELSE [Returned EXCEPT !.v = w.h[n].element, !.b = TRUE]

\* The loop of FirstBelow from node n with the candidate found so far.
RECURSIVE firstBelowFrom(_, _, _, _)
firstBelowFrom(w, item, n, candidate) ==
    IF n = Nil THEN get(w, candidate)
    ELSE IF comparison(item, w.h[n].element) > 0
    THEN firstBelowFrom(w, item, w.h[n].right, n)
    ELSE firstBelowFrom(w, item, w.h[n].left, candidate)

FirstBelow(w, x, item) == firstBelowFrom(w, item, w.ts[x].root, Nil)

RECURSIVE firstBelowEqualFrom(_, _, _, _)
firstBelowEqualFrom(w, item, n, candidate) ==
    IF n = Nil THEN get(w, candidate)
    ELSE IF comparison(item, w.h[n].element) = 0 THEN get(w, n)
    ELSE IF comparison(item, w.h[n].element) > 0
    THEN firstBelowEqualFrom(w, item, w.h[n].right, n)
    ELSE firstBelowEqualFrom(w, item, w.h[n].left, candidate)

FirstBelowEqual(w, x, item) == firstBelowEqualFrom(w, item, w.ts[x].root, Nil)

\* FirstAbove whose descent goes on to the right of a candidate.
RECURSIVE firstAboveFromRight(_, _, _, _)
firstAboveFromRight(w, item, n, candidate) ==
    IF n = Nil THEN get(w, candidate)
    ELSE IF comparison(item, w.h[n].element) < 0
    THEN firstAboveFromRight(w, item, w.h[n].right, n)
    ELSE firstAboveFromRight(w, item, w.h[n].right, candidate)

RECURSIVE firstAboveFrom(_, _, _, _)
firstAboveFrom(w, item, n, candidate) ==
    IF n = Nil THEN get(w, candidate)
    ELSE IF comparison(item, w.h[n].element) < 0
    THEN firstAboveFrom(w, item, w.h[n].left, n)
    ELSE firstAboveFrom(w, item, w.h[n].right, candidate)

FirstAbove(w, x, item) == firstAboveFrom(w, item, w.ts[x].root, Nil)

RECURSIVE firstAboveEqualFrom(_, _, _, _)
firstAboveEqualFrom(w, item, n, candidate) ==
    IF n = Nil THEN get(w, candidate)
    ELSE IF comparison(item, w.h[n].element) = 0 THEN get(w, n)
    ELSE IF comparison(item, w.h[n].element) < 0
    THEN firstAboveEqualFrom(w, item, w.h[n].left, n)
    ELSE firstAboveEqualFrom(w, item, w.h[n].right, candidate)

FirstAboveEqual(w, x, item) == firstAboveEqualFrom(w, item, w.ts[x].root, Nil)

\* --------------------------------------------------------------- new sets

\* The name of the set a call builds and returns.
Result == "t"

\* NewTreeSet for the set named x: the set and its marker are new, what an
\* earlier set of that name held is no longer referred to.
Fresh(w, x) ==
    [w EXCEPT !.ts[x] = NewTreeSet(x), !.h[markerAddr(x)] = node(Zero, black)]

\* The closures handed to filterLeft and filterRight: the comparison with
\* item that accepts an element.
accept(f, element) ==
    IF f.kind = "below" THEN comparison(element, f.item) < 0
    ELSE IF f.kind = "belowEqual" THEN comparison(element, f.item) <= 0
    ELSE IF f.kind = "above" THEN comparison(element, f.item) > 0
    ELSE comparison(element, f.item) >= 0

\* filterLeft that gives up the subtree of a node it does not accept, and
\* the node's left subtree with it.
RECURSIVE filterLeftPruningEarly(_, _, _, _)
filterLeftPruningEarly(w, n, f, result) ==
    IF n = Nil THEN w
    ELSE IF accept(f, w.h[n].element)
    THEN filterLeftPruningEarly(
             Insert(filterLeftPruningEarly(w, w.h[n].left, f, result),
                    result, w.h[n].element).w,
             w.h[n].right, f, result)
    ELSE w

RECURSIVE filterLeft(_, _, _, _)

\* filterLeft after the left subtree of n is done.
filterLeftVisit(w, n, f, result) ==
    IF accept(f, w.h[n].element)
    THEN filterLeft(Insert(w, result, w.h[n].element).w, w.h[n].right, f, result)
    ELSE w

filterLeft(w, n, f, result) ==
    IF n = Nil THEN w
    ELSE filterLeftVisit(filterLeft(w, w.h[n].left, f, result), n, f, result)

RECURSIVE filterRight(_, _, _, _)

\* filterRight after the right subtree of n is done.
filterRightVisit(w, n, f, result) ==
    IF accept(f, w.h[n].element)
    THEN filterRight(Insert(w, result, w.h[n].element).w, w.h[n].left, f, result)
    ELSE w

filterRight(w, n, f, result) ==
    IF n = Nil THEN w
    ELSE filterRightVisit(filterRight(w, w.h[n].right, f, result), n, f, result)

Below(w, x, item) ==
    filterLeft(Fresh(w, Result), w.ts[x].root, [kind |-> "below", item |-> item], Result)

BelowEqual(w, x, item) ==
    filterLeft(Fresh(w, Result), w.ts[x].root, [kind |-> "belowEqual", item |-> item], Result)

Above(w, x, item) ==
    filterRight(Fresh(w, Result), w.ts[x].root, [kind |-> "above", item |-> item], Result)

AboveEqual(w, x, item) ==
    filterRight(Fresh(w, Result), w.ts[x].root, [kind |-> "aboveEqual", item |-> item], Result)

\* The closures handed to prefix by Union and Copy ("all"), by Intersect
\* ("in") and by Difference ("notIn"): whether the element is inserted.
keeps(w, f, element) ==
    IF f.kind = "all" THEN TRUE
    ELSE IF f.kind = "in" THEN Contains(w, f.o, element)
    ELSE ~Contains(w, f.o, element)

\* visit(n) in prefix: tree.Insert(n.element) if the closure keeps it.
prefixVisit(w, n, f, tree) ==
    IF keeps(w, f, w.h[n].element) THEN Insert(w, tree, w.h[n].element).w ELSE w

RECURSIVE prefix(_, _, _, _)

\* s.prefix(visit, n.left)
prefixLeft(w, n, f, tree) == prefix(w, w.h[n].left, f, tree)

\* s.prefix(visit, n.right)
prefixRight(w, n, f, tree) == prefix(w, w.h[n].right, f, tree)

prefix(w, n, f, tree) ==
    IF n = Nil THEN w
    ELSE prefixRight(prefixLeft(prefixVisit(w, n, f, tree), n, f, tree), n, f, tree)

\* Union that visits s only.
UnionOfReceiver(w, x, o) ==
    prefix(Fresh(w, Result), w.ts[x].root, [kind |-> "all"], Result)

\* o.prefix(f, o.root), the second traversal of Union
unionSecond(w, o) == prefix(w, w.ts[o].root, [kind |-> "all"], Result)

Union(w, x, o) ==
    unionSecond(prefix(Fresh(w, Result), w.ts[x].root, [kind |-> "all"], Result), o)

\* Difference that keeps the elements it finds in o.
DifferenceKeepingCommon(w, x, o) ==
    prefix(Fresh(w, Result), w.ts[x].root, [kind |-> "in", o |-> o], Result)

Difference(w, x, o) ==
    prefix(Fresh(w, Result), w.ts[x].root, [kind |-> "notIn", o |-> o], Result)

\* Intersect that keeps every element of s.
IntersectKeepingAll(w, x, o) ==
    prefix(Fresh(w, Result), w.ts[x].root, [kind |-> "all"], Result)

Intersect(w, x, o) ==
    prefix(Fresh(w, Result), w.ts[x].root, [kind |-> "in", o |-> o], Result)

\* The calls of o.Contains that the closure of Intersect makes on node n:
\* the set that is probed and the element it is probed for.
probeAt(w, n, f) ==
    IF f.kind = "all" THEN <<>> ELSE <<[set |-> f.o, item |-> w.h[n].element]>>

\* The probes of a prefix traversal from n, in the order they are made.
RECURSIVE prefixProbes(_, _, _)
prefixProbes(w, n, f) ==
    IF n = Nil THEN <<>>
    ELSE probeAt(w, n, f) \o prefixProbes(w, w.h[n].left, f)
                          \o prefixProbes(w, w.h[n].right, f)

\* Intersect that walks the operand with fewer elements and probes the other.
IntersectProbesOfSmaller(w, x, o) ==
    IF w.ts[o].size < w.ts[x].size
    THEN prefixProbes(w, w.ts[o].root, [kind |-> "in", o |-> x])
    ELSE prefixProbes(w, w.ts[x].root, [kind |-> "in", o |-> o])

\* The probes of s.Intersect(o): s.prefix(f, s.root) with f probing o.
IntersectProbes(w, x, o) ==
    prefixProbes(w, w.ts[x].root, [kind |-> "in", o |-> o])

\* Copy that hands out the tree of s itself.
CopySharing(w, x) == [w EXCEPT !.ts[Result] = w.ts[x]]

Copy(w, x) == prefix(Fresh(w, Result), w.ts[x].root, [kind |-> "all"], Result)

\* -------------------------------------------------------------- iterators

\* The stack of iterate: a sequence with its top at the end.
makeStack == <<>>

push(stck, n) == Append(stck, n)

empty(stck) == Len(stck) = 0

\* pop: the value on top and the stack without it.
pop(stck) == [value |-> stck[Len(stck)], stck |-> SubSeq(stck, 1, Len(stck) - 1)]

\* for n := ...; n != nil; n = n.left { stck.push(n) }
RECURSIVE pushLeftSpine(_, _, _)
pushLeftSpine(w, n, stck) ==
    IF n = Nil THEN stck ELSE pushLeftSpine(w, w.h[n].left, push(stck, n))

\* iterate: the stack the returned closure starts with.
iterate(w, x) == pushLeftSpine(w, w.ts[x].root, makeStack)

\* A call of the closure iterate returns: the node, and the stack left.
iterNext(w, stck) ==
    IF empty(stck) THEN [n |-> Nil, stck |-> stck]
    ELSE [n |-> pop(stck).value,
          stck |-> pushLeftSpine(w, w.h[pop(stck).value].right, pop(stck).stck)]

\* s.compare(a, b) of nodes an iterator returned, as an outcome: the
\* comparison in v, or the panic of reading the element of a nil node.
compareNodes(w, a, b) ==
    IF a = Nil \/ b = Nil THEN [Returned EXCEPT !.panic = NilDeref]
    ELSE [Returned EXCEPT !.v = compare(w, a, b)]

True == [Returned EXCEPT !.b = TRUE]

False == Returned

RECURSIVE subsetOuter(_, _, _, _, _, _, _)

\* The inner loop of Subset, looking for nextO in what is left of s.
RECURSIVE subsetInner(_, _, _, _, _, _, _, _)
subsetInner(w, x, o, idxO, idxS, iterO, iterS, nextO) ==
    IF ~(idxS < Size(w, x)) THEN False
    ELSE IF compareNodes(w, iterNext(w, iterS).n, nextO).panic # NoFault
    THEN compareNodes(w, iterNext(w, iterS).n, nextO)
    ELSE IF compareNodes(w, iterNext(w, iterS).n, nextO).v > 0 THEN False
    ELSE IF compareNodes(w, iterNext(w, iterS).n, nextO).v < 0
    THEN subsetInner(w, x, o, idxO, idxS + 1, iterO, iterNext(w, iterS).stck, nextO)
    ELSE subsetOuter(w, x, o, idxO + 1, idxS + 1, iterO, iterNext(w, iterS).stck)

\* The outer loop of Subset, over the elements of o.
subsetOuter(w, x, o, idxO, idxS, iterO, iterS) ==
    IF ~(idxO < Size(w, o)) THEN True
    ELSE subsetInner(w, x, o, idxO, idxS, iterNext(w, iterO).stck, iterS,
                     iterNext(w, iterO).n)

\* Subset with the fast paths only.
SubsetBySize(w, x, o) ==
    IF Empty(w, o) THEN True
    ELSE IF Empty(w, x) THEN False
    ELSE IF Size(w, x) < Size(w, o) THEN False
    ELSE True

Subset(w, x, o) ==
    IF Empty(w, o) THEN True
    ELSE IF Empty(w, x) THEN False
    ELSE IF Size(w, x) < Size(w, o) THEN False
    ELSE subsetOuter(w, x, o, 0, 0, iterate(w, o), iterate(w, x))

\* The loop of Equal.
RECURSIVE equalLoop(_, _, _, _, _)
equalLoop(w, x, i, iterS, iterO) ==
    IF ~(i < Size(w, x)) THEN True
    ELSE IF compareNodes(w, iterNext(w, iterS).n, iterNext(w, iterO).n).panic # NoFault
    THEN compareNodes(w, iterNext(w, iterS).n, iterNext(w, iterO).n)
    ELSE IF compareNodes(w, iterNext(w, iterS).n, iterNext(w, iterO).n).v # 0 THEN False
    ELSE equalLoop(w, x, i + 1, iterNext(w, iterS).stck, iterNext(w, iterO).stck)

\* Equal with the fast fail paths only.
EqualByEnds(w, x, o) ==
    IF Empty(w, x) \/ Empty(w, o) THEN [Returned EXCEPT !.b = (Size(w, x) = Size(w, o))]
    ELSE IF Size(w, x) # Size(w, o) THEN False
    ELSE IF Min(w, x).panic # NoFault THEN Min(w, x)
    ELSE IF Min(w, o).panic # NoFault THEN Min(w, o)
    ELSE IF comparison(Min(w, x).v, Min(w, o).v) # 0 THEN False
    ELSE IF Max(w, x).panic # NoFault THEN Max(w, x)
    ELSE IF Max(w, o).panic # NoFault THEN Max(w, o)
    ELSE IF comparison(Max(w, x).v, Max(w, o).v) # 0 THEN False
    ELSE True

Equal(w, x, o) ==
    IF Empty(w, x) \/ Empty(w, o) THEN [Returned EXCEPT !.b = (Size(w, x) = Size(w, o))]
    ELSE IF Size(w, x) # Size(w, o) THEN False
    ELSE IF Min(w, x).panic # NoFault THEN Min(w, x)
    ELSE IF Min(w, o).panic # NoFault THEN Min(w, o)
    ELSE IF comparison(Min(w, x).v, Min(w, o).v) # 0 THEN False
    ELSE IF Max(w, x).panic # NoFault THEN Max(w, x)
    ELSE IF Max(w, o).panic # NoFault THEN Max(w, o)
    ELSE IF comparison(Max(w, x).v, Max(w, o).v) # 0 THEN False
    ELSE equalLoop(w, x, 0, iterate(w, x), iterate(w, o))

\* -------------------------------------------------------------- traversal

\* What a traversal carries: the world, the elements visit was called on,
\* the modified flag of the closure of RemoveSet, and what the last call of
\* infix or of visit answered.
Walk(w) == [w |-> w, seen |-> <<>>, modified |-> FALSE, next |-> TRUE]

\* The closure of RemoveSet on node n: s.Remove(item), and true.
visitRemove(c, n, x) ==
    [w |-> Remove(c.w, x, c.w.h[n].element).w,
     seen |-> Append(c.seen, c.w.h[n].element),
     modified |-> c.modified \/ Remove(c.w, x, c.w.h[n].element).ret,
     next |-> TRUE]

\* The closures handed to infix by ForEach: the caller's visit, which
\* answers false on the element comparing equal to f.stop ("until"), and
\* the closure of RemoveSet that removes from the set f.x ("remove").
visit(c, n, f) ==
    IF f.kind = "remove" THEN visitRemove(c, n, f.x)
    ELSE [c EXCEPT !.seen = Append(c.seen, c.w.h[n].element),
                   !.next = comparison(c.w.h[n].element, f.stop) # 0]

\* infix that goes on after visit answered false.
RECURSIVE infixWithoutStop(_, _, _)
infixWithoutStop(c, n, f) ==
    IF n = Nil THEN c
    ELSE infixWithoutStop(visit(infixWithoutStop(c, c.w.h[n].left, f), n, f),
                          visit(infixWithoutStop(c, c.w.h[n].left, f), n, f).w.h[n].right, f)

RECURSIVE infix(_, _, _)

\* return s.infix(visit, n.right)
infixRight(c, n, f) == IF ~c.next THEN c ELSE infix(c, c.w.h[n].right, f)

\* if next = visit(n); !next { return }
infixVisit(c, n, f) == IF ~c.next THEN c ELSE infixRight(visit(c, n, f), n, f)

infix(c, n, f) ==
    IF n = Nil THEN [c EXCEPT !.next = TRUE]
    ELSE infixVisit(infix(c, c.w.h[n].left, f), n, f)

ForEach(w, x, f) == infix(Walk(w), w.ts[x].root, f)

\* RemoveSet that reports no change.
RemoveSetSilent(w, x, o) ==
    [w |-> ForEach(w, o, [kind |-> "remove", x |-> x]).w, ret |-> FALSE]

RemoveSet(w, x, o) ==
    [w |-> ForEach(w, o, [kind |-> "remove", x |-> x]).w,
     ret |-> ForEach(w, o, [kind |-> "remove", x |-> x]).modified]

\* ------------------------------------------------------------------ slices

\* for _, item := range items { if !s.Contains(item) { return false } }; return true
RECURSIVE containsEach(_, _, _, _)
containsEach(w, x, items, i) ==
    IF i > Len(items) THEN TRUE
    ELSE IF ~Contains(w, x, items[i]) THEN FALSE
    ELSE containsEach(w, x, items, i + 1)

ContainsSlice(w, x, items) == containsEach(w, x, items, 1)

\* ----------------------------------------------------------- serialization

\* for _, item := range items { if s.Insert(item) { modified = true } }
RECURSIVE insertEach(_, _, _, _, _)
insertEach(w, x, items, i, modified) ==
    IF i > Len(items) THEN [w |-> w, ret |-> modified]
    ELSE insertEach(Insert(w, x, items[i]).w, x, items, i + 1,
                    modified \/ Insert(w, x, items[i]).ret)

InsertSlice(w, x, items) == insertEach(w, x, items, 1, FALSE)

\* An encoded sequence is a sequence of encoded values: the encoding of the
\* element with id k is k; BadSyntax is text that is no JSON at all, and
\* BadType is a JSON value of another type than the element type.
BadSyntax == -7

BadType == -8

NoError == ""

DecodeError == "decode error"

\* json.Unmarshal(data, &slice): text that is not valid JSON is rejected
\* before anything is stored; a value of the wrong type leaves the zero
\* value in its place, decoding goes on, and the error is returned at the end.
jsonUnmarshal(data) ==
    IF \E i \in 1 .. Len(data) : data[i] = BadSyntax
    THEN [slice |-> <<>>, err |-> DecodeError]
    ELSE [slice |-> [i \in 1 .. Len(data) |->
                        IF data[i] = BadType THEN Zero ELSE data[i]],
          err |-> IF \E i \in 1 .. Len(data) : data[i] = BadType
                  THEN DecodeError ELSE NoError]

\* unmarshalJSON that inserts what was decoded before it looks at the error.
unmarshalJSONInsertingFirst(w, x, data) ==
    [w |-> InsertSlice(w, x, jsonUnmarshal(data).slice).w,
     err |-> jsonUnmarshal(data).err]

unmarshalJSON(w, x, data) ==
    IF jsonUnmarshal(data).err # NoError
    THEN [w |-> w, err |-> jsonUnmarshal(data).err]
    ELSE [w |-> InsertSlice(w, x, jsonUnmarshal(data).slice).w, err |-> NoError]

UnmarshalJSON(w, x, data) == unmarshalJSON(w, x, data)

\* --------------------------------------------------- HashSet and Set
\* (src/hashset.go, src/unnamed/part_004)

\* The Hash() of an element: tokens with one id have one hash.
Hash(item) == tokenId(item)

\* make(map[H]T), and len of a map
NewHashSet == <<>>

len(m) == Cardinality(DOMAIN m)

HashSetInsert(m, item) ==
    IF Hash(item) \in DOMAIN m THEN [m |-> m, ret |-> FALSE]
    ELSE [m |-> (Hash(item) :> item) @@ m, ret |-> TRUE]

HashSetRemove(m, item) ==
    IF Hash(item) \notin DOMAIN m THEN [m |-> m, ret |-> FALSE]
    ELSE [m |-> [k \in DOMAIN m \ {Hash(item)} |-> m[k]], ret |-> TRUE]

HashSetContains(m, item) == Hash(item) \in DOMAIN m

\* for _, item := range items { if !s.Contains(item) { return false } }
RECURSIVE hashContainsEach(_, _, _)
hashContainsEach(m, items, i) ==
    IF i > Len(items) THEN TRUE
    ELSE IF ~HashSetContains(m, items[i]) THEN FALSE
    ELSE hashContainsEach(m, items, i + 1)

HashSetContainsAll(m, items) ==
    IF len(m) < Len(items) THEN FALSE ELSE hashContainsEach(m, items, 1)

HashSetEqualSlice(m, items) ==
    IF len(m) # Len(items) THEN FALSE ELSE HashSetContainsAll(m, items)

\* for key, item := range m { result.items[key] = item }: the keys of a map
\* are distinct, so the order of the range does not show in the result.
assignEach(result, m) ==
    [key \in DOMAIN result \cup DOMAIN m |->
        IF key \in DOMAIN m THEN m[key] ELSE result[key]]

HashSetUnion(s, o) == assignEach(assignEach(NewHashSet, s), o)

\* Set[T]: items is a map[T]nothing, the elements are its keys.
nothing == "struct{}"

SetInsert(m, item) ==
    IF item \in DOMAIN m THEN [m |-> m, ret |-> FALSE]
    ELSE [m |-> (item :> nothing) @@ m, ret |-> TRUE]

SetRemove(m, item) ==
    IF item \notin DOMAIN m THEN [m |-> m, ret |-> FALSE]
    ELSE [m |-> [k \in DOMAIN m \ {item} |-> m[k]], ret |-> TRUE]

SetContains(m, item) == item \in DOMAIN m

RECURSIVE setContainsEach(_, _, _)
setContainsEach(m, items, i) ==
    IF i > Len(items) THEN TRUE
    ELSE IF ~SetContains(m, items[i]) THEN FALSE
    ELSE setContainsEach(m, items, i + 1)

SetContainsAll(m, items) ==
    IF len(m) < Len(items) THEN FALSE ELSE setContainsEach(m, items, 1)

SetEqualSlice(m, items) ==
    IF len(m) # Len(items) THEN FALSE ELSE SetContainsAll(m, items)

\* ------------------------------------------------- state machine, two sets

\* The tokens the caller puts in s, and those it puts in o: o may also hold
\* another token with the id of token 1.
PairTokens == 1 .. PairKey

OtherTokens == PairTokens \cup {-1}

TokensOf(x) == IF x = "s" THEN PairTokens ELSE OtherTokens

\* The caller lets go of the set an earlier call returned.
Drop(w) == Fresh(w, Result)

\* A call on s and o returned: c is the world it leaves, r what it returned,
\* SA and SB the mathematical sets after it.
PairReturns(c, r, o, a, SA, SB, br) ==
    /\ heap' = Canon(c).h
    /\ sets' = Canon(c).ts
    /\ fault' = c.fault
    /\ ret' = IF c.fault # NoFault THEN [Returned EXCEPT !.panic = c.fault] ELSE r
    /\ A' = SA
    /\ B' = SB
    /\ tables' = tables
    /\ op' = o
    /\ arg' = a
    /\ branch' = br

\* The caller builds s and o by calls of Insert and Remove (phase "pair"),
\* or by TreeSetFrom with items in any order (phase "from"), and then makes
\* one more call on them (phase "asked"), or copies s and goes on with s
\* and the copy (phase "copied").

\* A call that returns r and leaves the sets alone.
Asks(r, o, a) ==
    /\ fault = NoFault
    /\ PairReturns(Drop(World), r, o, a, A, B, "")
    /\ phase' = "asked"
    /\ UNCHANGED filled

PairAsks(r, o, a) == phase = "pair" /\ Asks(r, o, a)

\* A call that returns the new set built in the world c.
PairBuilds(c, o, a) ==
    /\ phase = "pair"
    /\ fault = NoFault
    /\ PairReturns(c, Returned, o, a, A, B, "")
    /\ phase' = "asked"
    /\ UNCHANGED filled

\* Insert and Remove on s or on o, by a caller that does not look at what
\* they return: the receiver is in branch.
PairInsert(x, item) ==
    /\ phase = "pair"
    /\ fault = NoFault
    /\ PairReturns(Insert(Drop(World), x, item).w, Returned, "Insert", 0,
                   IF x = "s" THEN AInsert(A, item) ELSE A,
                   IF x = "o" THEN AInsert(B, item) ELSE B,
                   x)
    /\ UNCHANGED <<phase, filled>>

PairRemove(x, item) ==
    /\ phase = "pair"
    /\ fault = NoFault
    /\ PairReturns(Remove(Drop(World), x, item).w, Returned, "Remove", 0,
                   IF x = "s" THEN ARemove(A, item) ELSE A,
                   IF x = "o" THEN ARemove(B, item) ELSE B,
                   x)
    /\ UNCHANGED <<phase, filled>>

CallFirstBelow(item) == PairAsks(FirstBelow(World, "s", item), "FirstBelow", item)

CallFirstBelowEqual(item) ==
    PairAsks(FirstBelowEqual(World, "s", item), "FirstBelowEqual", item)

CallFirstAbove(item) == PairAsks(FirstAbove(World, "s", item), "FirstAbove", item)

CallFirstAboveEqual(item) ==
    PairAsks(FirstAboveEqual(World, "s", item), "FirstAboveEqual", item)

CallBelow(item) == PairBuilds(Below(World, "s", item), "Below", item)

CallBelowEqual(item) == PairBuilds(BelowEqual(World, "s", item), "BelowEqual", item)

CallAbove(item) == PairBuilds(Above(World, "s", item), "Above", item)

CallAboveEqual(item) == PairBuilds(AboveEqual(World, "s", item), "AboveEqual", item)

CallUnion == PairBuilds(Union(World, "s", "o"), "Union", 0)

\* s.Intersect(o), and o.Intersect(s)
\* x.Intersect(o); ret.l holds the elements Contains was called with, in
\* order, and branch the set it was called on.
ProbedSet(probes) ==
    IF probes = <<>> THEN "" ELSE probes[1].set

CallIntersect(x, o) ==
    /\ phase = "pair"
    /\ fault = NoFault
    /\ \A i \in 1 .. Len(IntersectProbes(World, x, o)) :
          IntersectProbes(World, x, o)[i].set = ProbedSet(IntersectProbes(World, x, o))
    /\ PairReturns(Intersect(World, x, o),
                   [Returned EXCEPT !.l = [i \in 1 .. Len(IntersectProbes(World, x, o)) |->
                                             IntersectProbes(World, x, o)[i].item]],
                   "Intersect " \o x, 0, A, B,
                   ProbedSet(IntersectProbes(World, x, o)))
    /\ phase' = "asked"
    /\ UNCHANGED filled

CallDifference == PairBuilds(Difference(World, "s", "o"), "Difference", 0)

\* s and o are built, one way or the other.
Built == phase \in {"pair", "from"}

CallSubset == Built /\ Asks(Subset(World, "s", "o"), "Subset", 0)

CallEqual == Built /\ Asks(Equal(World, "s", "o"), "Equal", 0)

\* s.ForEach(visit) with a visit that answers false on the element stop,
\* or always true when stop is the zero value.
CallForEach(stop) ==
    PairAsks([Returned EXCEPT
                !.l = ForEach(World, "s", [kind |-> "until", stop |-> stop]).seen],
             "ForEach", stop)

\* The mathematical set after the elements of a set holding G are removed.
ARemoveAll(H, G) == {a \in H : \A g \in G : comparison(a, g) # 0}

\* s.RemoveSet(o)
CallRemoveSet ==
    /\ Built
    /\ fault = NoFault
    /\ PairReturns(RemoveSet(Drop(World), "s", "o").w,
                   [Returned EXCEPT !.b = RemoveSet(Drop(World), "s", "o").ret],
                   "RemoveSet", 0, ARemoveAll(A, B), B, "o")
    /\ phase' = "asked"
    /\ UNCHANGED filled

\* s.RemoveSet(s)
CallRemoveSetSelf ==
    /\ Built
    /\ fault = NoFault
    /\ PairReturns(RemoveSet(Drop(World), "s", "s").w,
                   [Returned EXCEPT !.b = RemoveSet(Drop(World), "s", "s").ret],
                   "RemoveSet", 0, ARemoveAll(A, A), B, "s")
    /\ phase' = "asked"
    /\ UNCHANGED filled

\* The encoded sequences and slices of up to MaxItems values.
SeqsOf(V) == UNION {[1 .. n -> V] : n \in 0 .. MaxItems}

RECURSIVE AInsertAll(_, _, _)
AInsertAll(H, items, i) ==
    IF i > Len(items) THEN H ELSE AInsertAll(AInsert(H, items[i]), items, i + 1)

\* s.UnmarshalJSON(data), by a caller that has no other set; the error it
\* returns is kept in branch and the data in ret.l.
CallUnmarshalJSON(data) ==
    /\ phase = "pair"
    /\ fault = NoFault
    /\ B = {}
    /\ PairReturns(UnmarshalJSON(Drop(World), "s", data).w,
                   [Returned EXCEPT !.l = data],
                   "UnmarshalJSON", 0,
                   IF UnmarshalJSON(Drop(World), "s", data).err # NoError THEN A
                   ELSE AInsertAll(A, jsonUnmarshal(data).slice, 1),
                   B,
                   UnmarshalJSON(Drop(World), "s", data).err)
    /\ phase' = "asked"
    /\ UNCHANGED filled

\* s.ContainsSlice(items), by a caller that has no other set; the items
\* are kept in ret.l.
CallContainsSlice(items) ==
    /\ B = {}
    /\ PairAsks([Returned EXCEPT !.b = ContainsSlice(World, "s", items), !.l = items],
                "ContainsSlice", 0)

\* s.Copy(), by a caller that has an empty o; from here on B is the
\* mathematical set of the copy.
CallCopy ==
    /\ phase = "pair"
    /\ fault = NoFault
    /\ B = {}
    /\ PairReturns(Copy(World, "s"), Returned, "Copy", 0, A, A, "")
    /\ phase' = "copied"
    /\ UNCHANGED filled

\* Insert and Remove on s or on the copy.
CopyInsert(x, item) ==
    /\ phase = "copied"
    /\ fault = NoFault
    /\ PairReturns(Insert(World, x, item).w, Returned, "Insert", 0,
                   IF x = "s" THEN AInsert(A, item) ELSE A,
                   IF x = Result THEN AInsert(B, item) ELSE B,
                   x)
    /\ UNCHANGED <<phase, filled>>

CopyRemove(x, item) ==
    /\ phase = "copied"
    /\ fault = NoFault
    /\ PairReturns(Remove(World, x, item).w, Returned, "Remove", 0,
                   IF x = "s" THEN ARemove(A, item) ELSE A,
                   IF x = Result THEN ARemove(B, item) ELSE B,
                   x)
    /\ UNCHANGED <<phase, filled>>

\* TreeSetFrom(items, compare) for s or for o, an item at a time: the
\* items are distinct and come in any order.
FromInsert(x, item) ==
    /\ phase = "from"
    /\ fault = NoFault
    /\ item \notin (IF x = "s" THEN A ELSE B)
    /\ PairReturns(Insert(World, x, item).w, Returned, "TreeSetFrom", 0,
                   IF x = "s" THEN AInsert(A, item) ELSE A,
                   IF x = "o" THEN AInsert(B, item) ELSE B,
                   x)
    /\ UNCHANGED <<phase, filled>>

InitPair == InitTree /\ phase \in {"pair", "from"}

NextPair ==
    \/ \E x \in {"s", "o"} : \E item \in 1 .. FromKey : FromInsert(x, item)
    \/ \E x \in {"s", "o"} : \E item \in TokensOf(x) : PairInsert(x, item)
    \/ \E x \in {"s", "o"} : \E item \in TokensOf(x) : PairRemove(x, item)
    \/ \E item \in OtherTokens : CallFirstBelow(item)
    \/ \E item \in OtherTokens : CallFirstBelowEqual(item)
    \/ \E item \in OtherTokens : CallFirstAbove(item)
    \/ \E item \in OtherTokens : CallFirstAboveEqual(item)
    \/ \E item \in OtherTokens : CallBelow(item)
    \/ \E item \in OtherTokens : CallBelowEqual(item)
    \/ \E item \in OtherTokens : CallAbove(item)
    \/ \E item \in OtherTokens : CallAboveEqual(item)
    \/ CallUnion
    \/ CallIntersect("s", "o")
    \/ CallIntersect("o", "s")
    \/ CallDifference
    \/ CallSubset
    \/ CallEqual
    \/ \E stop \in {Zero} \cup PairTokens : CallForEach(stop)
    \/ CallRemoveSet
    \/ CallRemoveSetSelf
    \/ CallCopy
    \/ \E items \in SeqsOf(PairTokens) : CallContainsSlice(items)
    \/ \E data \in SeqsOf(PairTokens \cup {BadSyntax, BadType}) : CallUnmarshalJSON(data)
    \/ \E x \in {"s", Result} : \E item \in TokensOf(x) : CopyInsert(x, item)
    \/ \E x \in {"s", Result} : \E item \in TokensOf(x) : CopyRemove(x, item)

SpecPair == InitPair /\ [][NextPair]_vars

\* ---------------------------------------------------- properties, two sets

O == "o"

\* The world after the step.
WorldNext == [h |-> heap', ts |-> sets', fault |-> fault']

\* The elements a traversal of the set x finds.
Elems(w, x) == Range(Slice(w, x))

Ids(X) == {tokenId(e) : e \in X}

\* The tree below n: elements, colours and shape.
RECURSIVE TreeOf(_, _)
TreeOf(w, n) ==
    IF n = Nil THEN <<>>
    ELSE <<TreeOf(w, w.h[n].left), w.h[n].element, w.h[n].color, TreeOf(w, w.h[n].right)>>

\* The step leaves the set x as it was.
Same(x) ==
    /\ TreeOf(WorldNext, sets'[x].root) = TreeOf(World, sets[x].root)
    /\ sets'[x].size = sets[x].size

\* The step is the one call that ends the caller's script, and the call is o.
Asked(o) == phase' = "asked" /\ op' = o

\* The set x is a red-black search tree of the size it says.
RedBlack(w, x) ==
    /\ nodeBlack(w, w.ts[x].root)
    /\ \A n \in Reach(w, w.ts[x].root) :
           nodeRed(w, n) => nodeBlack(w, w.h[n].left) /\ nodeBlack(w, w.h[n].right)
    /\ Cardinality(BlackCounts(w, w.ts[x].root)) = 1
    /\ StrictlyAscending(Slice(w, x))
    /\ Size(w, x) = Len(Slice(w, x))

\* ret is the least element of the set H, or the greatest, or (zero, false)
\* if H is empty.
IsLeastOf(H) ==
    IF H = {} THEN ret = Returned
    ELSE ret.b /\ ret.v \in H /\ \A a \in H : comparison(ret.v, a) <= 0

IsGreatestOf(H) ==
    IF H = {} THEN ret = Returned
    ELSE ret.b /\ ret.v \in H /\ \A a \in H : comparison(ret.v, a) >= 0

\* C11: FirstAbove(v) returns the least element greater than v,
\* FirstAboveEqual(v) the least element >= v, FirstBelow(v) the greatest
\* element less than v, FirstBelowEqual(v) the greatest element <= v, each
\* with true, and (zero value, false) when there is no such element.
C11_FirstAboveBelow ==
    /\ op = "FirstAbove" => IsLeastOf({a \in A : comparison(a, arg) > 0})
    /\ op = "FirstAboveEqual" => IsLeastOf({a \in A : comparison(a, arg) >= 0})
    /\ op = "FirstBelow" => IsGreatestOf({a \in A : comparison(a, arg) < 0})
    /\ op = "FirstBelowEqual" => IsGreatestOf({a \in A : comparison(a, arg) <= 0})

\* C11 witness: FirstAbove(v) has found an element that is not the
\* greatest of a set of three, for a v the set holds.
C11_Witness ==
    /\ op = "FirstAbove"
    /\ ret.b
    /\ Cardinality(A) = 3
    /\ \E a \in A : comparison(a, arg) = 0
    /\ \E a \in A : comparison(a, ret.v) > 0

\* The elements of H the call named o with argument v is to return.
Bounded(H, o, v) ==
    IF o = "Below" THEN {a \in H : comparison(a, v) < 0}
    ELSE IF o = "BelowEqual" THEN {a \in H : comparison(a, v) <= 0}
    ELSE IF o = "Above" THEN {a \in H : comparison(a, v) > 0}
    ELSE {a \in H : comparison(a, v) >= 0}

Bounds == {"Below", "BelowEqual", "Above", "AboveEqual"}

BoundedAnswer ==
    op \in Bounds =>
        /\ Elems(World, Result) = Bounded(A, op, arg)
        /\ RedBlack(World, Result)
        /\ Reach(World, sets[Result].root) \cap Reach(World, sets[S].root) = {}

\* C12: Below(v), BelowEqual(v), Above(v) and AboveEqual(v) return a new
\* set of exactly the elements of s that are < v, <= v, > v and >= v; the
\* result is a red-black tree and s is as it was.
C12_AboveBelowSets ==
    /\ [](BoundedAnswer)
    /\ [][(\E o \in Bounds : Asked(o)) => Same(S)]_vars

\* C12 witness: BelowEqual(v) has returned two of the three elements of s,
\* the element at the root of s among them.
C12_Witness ==
    /\ op = "BelowEqual"
    /\ Cardinality(A) = 3
    /\ Cardinality(Elems(World, Result)) = 2
    /\ heap[sets[S].root].element \in Elems(World, Result)

\* The nodes of the returned set are nodes of neither s nor o.
ResultIsNew ==
    Reach(World, sets[Result].root)
        \cap (Reach(World, sets[S].root) \cup Reach(World, sets[O].root)) = {}

UnionAnswer ==
    op = "Union" =>
        /\ Elems(World, Result) \subseteq A \cup B
        /\ Ids(Elems(World, Result)) = Ids(A) \cup Ids(B)
        /\ StrictlyAscending(Slice(World, Result))
        /\ Size(World, Result) = Cardinality(Ids(A) \cup Ids(B))
        /\ Size(World, Result) <= Size(World, S) + Size(World, O)
        /\ ResultIsNew

\* C13: s.Union(o) is a new set of exactly the elements that are in s or in
\* o, each once, so its size is at most the sum of the sizes; s and o are
\* as they were.
C13_Union ==
    /\ [](UnionAnswer)
    /\ [][Asked("Union") => (Same(S) /\ Same(O))]_vars

\* C13 witness: Union has returned for an s and an o that have an element
\* in common and each an element the other has not.
C13_Witness ==
    /\ op = "Union"
    /\ Ids(A) \cap Ids(B) # {}
    /\ Ids(A) \ Ids(B) # {}
    /\ Ids(B) \ Ids(A) # {}
    /\ Size(World, Result) < Size(World, S) + Size(World, O)

\* The elements of H that compare equal to an element of G.
Common(H, G) == {a \in H : \E g \in G : comparison(a, g) = 0}

IntersectAnswer ==
    /\ op = "Intersect s" =>
           /\ Elems(World, Result) = Common(A, B)
           /\ Ids(Elems(Intersect(World, O, S), Result)) = Ids(Elems(World, Result))
    /\ op = "Intersect o" =>
           /\ Elems(World, Result) = Common(B, A)
           /\ Ids(Elems(Intersect(World, S, O), Result)) = Ids(Elems(World, Result))
    /\ op \in {"Intersect s", "Intersect o"} =>
           /\ (A = {} \/ B = {}) => Size(World, Result) = 0
           /\ RedBlack(World, Result)
           /\ ResultIsNew

\* C14: s.Intersect(o) is a new set of exactly the elements present in both
\* s and o, empty when either is empty, and s.Intersect(o) and
\* o.Intersect(s) have the same elements.
C14_Intersect == IntersectAnswer

\* C14 witness: o.Intersect(s) has returned some and not all elements of o,
\* one of them a token of o whose id a different token of s carries.
C14_Witness ==
    /\ op = "Intersect o"
    /\ Elems(World, Result) # {}
    /\ Elems(World, Result) # B
    /\ \E e \in Elems(World, Result) : e \notin A

DifferenceAnswer ==
    op = "Difference" =>
        /\ Elems(World, Result) = A \ Common(A, B)
        /\ Ids(Elems(World, Result)) \cap Ids(B) = {}
        /\ Elems(World, Result) \subseteq A
        /\ Elems(Intersect(World, Result, O), Result) = {}
        /\ Subset(World, S, Result).b
        /\ RedBlack(World, Result)
        /\ ResultIsNew

\* C15: s.Difference(o) is a new set of exactly the elements of s that are
\* not in o: its intersection with o is empty and it is a subset of s.
C15_Difference == DifferenceAnswer

\* C15 witness: Difference has returned some and not all elements of s.
C15_Witness ==
    /\ op = "Difference"
    /\ Elems(World, Result) # {}
    /\ Elems(World, Result) # A
    /\ Cardinality(A) = 3

\* The naive check: s.Contains for each element of o.
NaiveSubset == \A e \in Elems(World, O) : Contains(World, S, e)

\* C16: s.Subset(o) returns true exactly when every element of o is
\* contained in s, as the check that probes s.Contains for each element of
\* o does; it is true for an empty o and false when s is exhausted before
\* an element of o is matched.
C16_Subset ==
    op = "Subset" =>
        /\ ret.panic = NoFault
        /\ ret.b <=> (\A b \in B : \E a \in A : comparison(a, b) = 0)
        /\ ret.b <=> NaiveSubset
        /\ B = {} => ret.b

\* C16 witness: Subset has returned false for an s larger than o that
\* holds an element of o and is all below another element of o.
C16_Witness ==
    /\ op = "Subset"
    /\ ~ret.b
    /\ Cardinality(A) > Cardinality(B)
    /\ \E b \in B : \E a \in A : comparison(a, b) = 0
    /\ \E b \in B : \A a \in A : comparison(a, b) < 0

\* C17: s.Equal(o) returns true exactly when s and o contain the same
\* elements, whatever the shapes of the two trees; two empty sets are
\* equal, and sets of one size with the same least and greatest element
\* and different elements between them are not.
C17_Equal ==
    op = "Equal" =>
        /\ ret.panic = NoFault
        /\ ret.b <=> Ids(A) = Ids(B)
        /\ (A = {} /\ B = {}) => ret.b

\* C17 witness: Equal has returned false for sets of one size with the
\* same least and the same greatest element.
C17_Witness ==
    /\ op = "Equal"
    /\ ~ret.b
    /\ Cardinality(A) = Cardinality(B)
    /\ A # {}
    /\ comparison(Min(World, S).v, Min(World, O).v) = 0
    /\ comparison(Max(World, S).v, Max(World, O).v) = 0

\* Equal has returned true for two trees of different shapes.
EqualAcrossShapes ==
    /\ op = "Equal"
    /\ ret.b
    /\ Cardinality(A) >= 3
    /\ TreeOf(World, sets[S].root) # TreeOf(World, sets[O].root)

\* The copy and s hold what the caller expects of each, on nodes of
\* their own, and the copy as Copy returned it is Equal to s.
CopyAnswer ==
    phase = "copied" =>
        /\ fault = NoFault
        /\ Elems(World, S) = A
        /\ Elems(World, Result) = B
        /\ sets[S].size = Cardinality(A)
        /\ sets[Result].size = Cardinality(B)
        /\ Reach(World, sets[Result].root) \cap Reach(World, sets[S].root) = {}
        /\ op = "Copy" => (A = B /\ Equal(World, S, Result).b)

\* An Insert or Remove on the copy leaves s as it was, and one on s
\* leaves the copy as it was.
CopyApart ==
    (phase = "copied" /\ phase' = "copied") =>
        /\ branch' = Result => Same(S)
        /\ branch' = S => Same(Result)

\* C18: s.Copy() returns a set Equal to s that shares no tree nodes with
\* s: any later sequence of Insert and Remove on the copy leaves the
\* contents of s unchanged, and any such sequence on s leaves the contents
\* of the copy unchanged.
C18_Copy == [](CopyAnswer) /\ [][CopyApart]_vars

\* C18 witness: after a copy and changes, the last of them on the copy,
\* s and the copy each hold an element the other does not.
C18_Witness ==
    /\ phase = "copied"
    /\ op \in {"Insert", "Remove"}
    /\ branch = Result
    /\ A \ B # {}
    /\ B \ A # {}

\* The places in the ascending sequence of s of the element on which the
\* caller's visit answers false.
StopAt == {i \in 1 .. Len(Slice(World, S)) : comparison(Slice(World, S)[i], arg) = 0}

\* C19: s.ForEach(visit) calls visit on the elements of s in strictly
\* ascending order, each at most once; when every call answers true all
\* elements are visited, and after the first call that answers false visit
\* is not called again: the elements visited are the ascending prefix
\* ending at that element.
C19_ForEach ==
    op = "ForEach" =>
        /\ ret.panic = NoFault
        /\ \A i \in 1 .. Len(ret.l) - 1 : comparison(ret.l[i], ret.l[i + 1]) < 0
        /\ StopAt = {} => ret.l = Slice(World, S)
        /\ \A i \in StopAt : ret.l = SubSeq(Slice(World, S), 1, i)

\* C19 witness: visit answered false on the second of three elements.
C19_Witness ==
    /\ op = "ForEach"
    /\ StopAt # {}
    /\ Len(ret.l) >= 2
    /\ Len(ret.l) < Len(Slice(World, S))

\* s.RemoveSet(o) for two different sets: s afterwards holds the
\* elements it had that have no equal element in o.
RemoveSetOther ==
    (op = "RemoveSet" /\ branch = O) =>
        /\ ret.panic = NoFault
        /\ Elems(World, S) = A
        /\ sets[S].size = Cardinality(A)
        /\ RedBlack(World, S)

\* s.RemoveSet(o) for two different sets leaves o as it was and returns
\* true exactly when an element left s.
RemoveSetOtherReturns ==
    [][(Asked("RemoveSet") /\ branch' = O) =>
            (Same(O) /\ (ret'.b <=> A' # A))]_vars

\* C20: after s.RemoveSet(o) the set s contains exactly the elements it
\* had that are not in o, for every pair of sets; when o is s itself,
\* s.RemoveSet(s) leaves s empty.
C20_RemoveSet ==
    op = "RemoveSet" =>
        /\ ret.panic = NoFault
        /\ Elems(World, S) = A
        /\ sets[S].size = Cardinality(A)
        /\ branch = S => (Elems(World, S) = {} /\ sets[S].size = 0)

\* C20: s.RemoveSet(o) returns true exactly when at least one element was
\* removed from s, for every pair of sets, o being s included.
C20_RemoveSetReturns ==
    [][Asked("RemoveSet") =>
            (ret'.b <=> Elems(WorldNext, S) # Elems(World, S))]_vars

\* C20 witness: s.RemoveSet(s) has returned true and s still holds
\* elements.
C20_Witness ==
    /\ op = "RemoveSet"
    /\ branch = S
    /\ ret.panic = NoFault
    /\ ret.b
    /\ Elems(World, S) # {}
    /\ sets[S].size = Cardinality(Elems(World, S))

\* Intersect was called; its receiver and its argument.
IsIntersect == op \in {"Intersect s", "Intersect o"}

IntersectReceiver == IF op = "Intersect s" THEN S ELSE O

IntersectArgument == IF op = "Intersect s" THEN O ELSE S

\* C26 as stated: s.Intersect(o) performs exactly min(s.Size(), o.Size())
\* membership probes, each against the operand with more elements.
C26_ProbesOfSmaller ==
    IsIntersect =>
        /\ Len(ret.l) = Least(sets[S].size, sets[O].size)
        /\ ret.l # <<>> =>
              /\ branch \in {S, O}
              /\ sets[branch].size >= sets[IF branch = S THEN O ELSE S].size

\* C26 amended: s.Intersect(o) walks the receiver s and probes the argument
\* o: it performs exactly s.Size() membership probes, one for each element
\* of s, each against o, whichever of the two has more elements.
C26_ProbesOfReceiver ==
    IsIntersect =>
        /\ Len(ret.l) = sets[IntersectReceiver].size
        /\ Range(ret.l) = Elems(World, IntersectReceiver)
        /\ ret.l # <<>> => branch = IntersectArgument

\* C26 witness: Intersect was called on a receiver with more elements than
\* its argument, which is not empty, and probed the argument once for each
\* element of the receiver.
C26_Witness ==
    /\ op = "Intersect s"
    /\ sets[S].size > sets[O].size
    /\ sets[O].size > 0
    /\ Len(ret.l) = sets[S].size
    /\ branch = O

\* ------------------------------------------------- properties, the marker

\* The marker of the set x is no part of the tree and has no links.
MarkerDetached(w, x) ==
    /\ w.h[w.ts[x].marker].color = black
    /\ w.h[w.ts[x].marker].parent = Nil
    /\ w.h[w.ts[x].marker].left = Nil
    /\ w.h[w.ts[x].marker].right = Nil
    /\ w.ts[x].root # w.ts[x].marker
    /\ \A n \in Reach(w, w.ts[x].root) :
          /\ w.h[n].left # w.ts[x].marker
          /\ w.h[n].right # w.ts[x].marker
          /\ w.h[n].parent # w.ts[x].marker

\* C25: after every completed Remove, whether or not the marker was used
\* and also when the removed node was the root and only node, the marker is
\* detached: no node reachable from the root has it as a child, its parent,
\* left and right links are absent, and its colour is black.
C25_MarkerDetached == fault = NoFault => MarkerDetached(World, S)

\* C25 witness: Remove has spliced out a black node without children that
\* was not the root, which puts the marker in its place during the fixup.
C25_Witness ==
    /\ op = "Remove"
    /\ ret.b
    /\ branch = "no child, black"
    /\ Cardinality(A) >= 3
    /\ MarkerDetached(World, S)

\* Remove has taken away the root of a set of one element.
RemovedOnlyNode ==
    /\ op = "Remove"
    /\ ret.b
    /\ branch = "no child, black"
    /\ A = {}

\* ------------------------------------------------ properties, red removal

\* The node that delete splices out when it is asked to remove node n: n,
\* or its in-order successor when n has two children.
Spliced(w, n) ==
    IF w.h[n].left # Nil /\ w.h[n].right # Nil THEN min(w, w.h[n].right) ELSE n

\* Node m is in v as it is in w, but for a slot that held removed.
KeepsNode(w, v, m, removed) ==
    /\ v.h[m].color = w.h[m].color
    /\ v.h[m].parent = w.h[m].parent
    /\ v.h[m].left = (IF w.h[m].left = removed THEN Nil ELSE w.h[m].left)
    /\ v.h[m].right = (IF w.h[m].right = removed THEN Nil ELSE w.h[m].right)

\* The world v is w without the node removed, its element gone or handed
\* to node n, and nothing else changed.
OnlySplicedOut(w, v, n, removed) ==
    /\ v.fault = NoFault
    /\ v.ts[S].root = w.ts[S].root
    /\ v.ts[S].size = w.ts[S].size - 1
    /\ Reach(v, v.ts[S].root) = Reach(w, w.ts[S].root) \ {removed}
    /\ \A m \in Reach(w, w.ts[S].root) \ {removed} :
          /\ KeepsNode(w, v, m, removed)
          /\ v.h[m].element = (IF m = n THEN w.h[removed].element ELSE w.h[m].element)
    /\ Cardinality({m \in Reach(w, w.ts[S].root) :
                        w.h[m].left = removed \/ w.h[m].right = removed}) = 1

\* Remove(item) of this step splices out a red node.
RemovesRed ==
    /\ IsCall("Remove")
    /\ branch' \in {"no child, red", "one child, red", "two children, red"}

\* C27: Remove runs the deletion fixup only when the node spliced out (the
\* located node, or its successor when it has two children) was black; when
\* that node is red no rotation and no recolouring happens: every remaining
\* node keeps its colour and its parent and child links, except the one
\* slot that held the removed node, and the red-black invariants still hold.
C27_RedRemoval ==
    [][RemovesRed =>
            \A v \in {Remove(World, S, arg').w} :
            \A n \in {locate(World, Root, arg')} :
                /\ fault' = NoFault
                /\ ret'.b
                /\ OnlySplicedOut(World, v, n, Spliced(World, n))
                /\ TreeOf(WorldNext, sets'[S].root) = TreeOf(v, v.ts[S].root)
                /\ RedBlack(WorldNext, S)]_vars

\* C27 witness: Remove has taken an element with two children out of a
\* set of five or more by splicing out its red successor.
C27_Witness ==
    /\ op = "Remove"
    /\ ret.b
    /\ branch = "two children, red"
    /\ Cardinality(A) >= 4

\* ------------------------------------------------ state machine, rotations

\* A tree of RotKey nodes is built by Insert in any order (its nodes are
\* numbered in in-order), and is then rotated left or right at any node
\* that has the child the rotation needs, any number of times: every
\* binary search tree of RotKey nodes is reached.
RotReturns(c, o, a, SA) ==
    /\ heap' = Canon(c).h
    /\ sets' = Canon(c).ts
    /\ fault' = c.fault
    /\ ret' = [Returned EXCEPT !.panic = c.fault]
    /\ A' = SA
    /\ op' = o
    /\ arg' = a
    /\ branch' = ""
    /\ UNCHANGED <<B, phase, filled, tables>>

RotInsert(item) ==
    /\ phase = "rotate"
    /\ fault = NoFault
    /\ item \notin A
    /\ RotReturns(Insert(World, "s", item).w, "Insert", 0, A \cup {item})

\* rotateLeft(n) without its last statement, the call of replaceChild.
CallRotateLeftWithoutReplace(n) ==
    /\ phase = "rotate"
    /\ fault = NoFault
    /\ Cardinality(A) = RotKey
    /\ heap[n].right # Nil
    /\ RotReturns(rotateLeftLinksWithoutReplace(World, "s", n, heap[n].parent,
                                                heap[n].right),
                  "rotateLeft", n, A)

CallRotateLeft(n) ==
    /\ phase = "rotate"
    /\ fault = NoFault
    /\ Cardinality(A) = RotKey
    /\ heap[n].right # Nil
    /\ RotReturns(rotateLeft(World, "s", n), "rotateLeft", n, A)

CallRotateRight(n) ==
    /\ phase = "rotate"
    /\ fault = NoFault
    /\ Cardinality(A) = RotKey
    /\ heap[n].left # Nil
    /\ RotReturns(rotateRight(World, "s", n), "rotateRight", n, A)

InitRotate == InitTree /\ phase = "rotate"

NextRotate ==
    \/ \E item \in 1 .. RotKey : RotInsert(item)
    \/ \E n \in 1 .. RotKey : CallRotateLeft(n)
    \/ \E n \in 1 .. RotKey : CallRotateRight(n)

SpecRotate == InitRotate /\ [][NextRotate]_vars

\* ---------------------------------------------------- properties, rotations

\* In the world v the node c is where n is in w: under the parent of n on
\* the same side, or the root when n is the root.
InPlaceOf(w, v, n, c) ==
    /\ v.h[c].parent = w.h[n].parent
    /\ IF w.h[n].parent = Nil THEN v.ts[S].root = c
       ELSE /\ v.ts[S].root = w.ts[S].root
            /\ w.h[w.h[n].parent].left = n => v.h[w.h[n].parent].left = c
            /\ w.h[w.h[n].parent].right = n => v.h[w.h[n].parent].right = c

\* The worlds v and w hold the same tree on the same nodes.
SameShape(w, v) ==
    /\ v.ts[S].root = w.ts[S].root
    /\ \A m \in Reach(w, w.ts[S].root) : v.h[m] = w.h[m]

\* The rotation v of w at n promoted the child c of n on the side that
\* rotates up; back is the opposite rotation of v at c.
Rotated(w, v, n, c, side, back) ==
    /\ v.fault = NoFault
    /\ InPlaceOf(w, v, n, c)
    /\ v.h[c][side] = n
    /\ v.h[n].parent = c
    /\ Slice(v, S) = Slice(w, S)
    /\ StrictlyAscending(Slice(v, S))
    /\ Reach(v, v.ts[S].root) = Reach(w, w.ts[S].root)
    /\ SameShape(w, back)
    /\ TreeOf(WorldNext, sets'[S].root) = TreeOf(v, v.ts[S].root)

\* C28: for any binary search tree and any node n whose right child is
\* present, rotateLeft(n) puts that child where n was (under the former
\* parent of n on the same side, or at the root), makes n its left child
\* and leaves the in-order sequence of the tree unchanged; rotateRight is
\* the mirror image for a node whose left child is present, and rotateRight
\* applied to the promoted node restores the original shape.
C28_Rotations ==
    [][/\ op' = "rotateLeft" =>
            \A v \in {rotateLeft(World, S, arg')} :
                Rotated(World, v, arg', heap[arg'].right, "left",
                        rotateRight(v, S, heap[arg'].right))
       /\ op' = "rotateRight" =>
            \A v \in {rotateRight(World, S, arg')} :
                Rotated(World, v, arg', heap[arg'].left, "right",
                        rotateLeft(v, S, heap[arg'].left))]_vars

\* C28 witness: rotateLeft was applied below the root, on a node whose
\* promoted child had a left subtree, in a tree that is no red-black tree.
C28_Witness ==
    /\ op = "rotateLeft"
    /\ heap[arg].parent # Nil
    /\ heap[heap[arg].parent].parent # Nil
    /\ heap[arg].right # Nil
    /\ ~RedBlack(World, S)

\* ------------------------------------------------- properties, no failure

\* C29: in no sequence of Insert and Remove from an empty set is an
\* internal failure reached: the panics of replaceChild, siblingOf and
\* uncleOf never fire, no rotation is applied to a node whose pivot child
\* is absent, and the deletion fixup never reads the children or the colour
\* of an absent sibling.
C29_NoInternalFailure ==
    /\ fault = NoFault
    /\ op \in {"Insert", "Remove"} => ret.panic = NoFault

\* C29 witness: in the drain of a set that was filled in ascending order,
\* Remove has spliced out a black node without children while seven or
\* more elements remain, so that the fixup went through siblings and
\* rotations, and returned.
C29_Witness ==
    /\ phase = "drain"
    /\ op = "Remove"
    /\ ret.b
    /\ ret.panic = NoFault
    /\ branch = "no child, black"
    /\ Cardinality(A) >= 7

\* ---------------------------------------------- properties, parent links

\* In the set x the parent fields agree with the child links.
ParentsAgree(w, x) ==
    /\ w.ts[x].root # Nil => w.h[w.ts[x].root].parent = Nil
    /\ \A n \in Reach(w, w.ts[x].root) :
          /\ w.h[n].left # Nil => w.h[w.h[n].left].parent = n
          /\ w.h[n].right # Nil => w.h[w.h[n].right].parent = n
          /\ w.h[n].parent # Nil =>
                (w.h[w.h[n].parent].left = n \/ w.h[w.h[n].parent].right = n)

\* C30: after every completed Insert or Remove the parent back-pointers
\* agree with the child links: the parent of the root is absent, and every
\* present left or right child of a node reachable from the root has that
\* node as its parent (no reachable node points to a parent that does not
\* hold it as a child).
C30_ParentsAgree == fault = NoFault => ParentsAgree(World, S)

\* C30 witness: Remove has taken out an element with two children by
\* splicing out its black successor, and the fixup has left a tree of
\* three levels.
C30_Witness ==
    /\ op = "Remove"
    /\ ret.b
    /\ branch = "two children, black"
    /\ Cardinality(A) >= 5
    /\ \E n \in Reach(World, Root) :
          heap[n].parent # Nil /\ heap[heap[n].parent].parent # Nil

\* ------------------------------------------- state machine, HashSet and Set

\* The caller builds two HashSets s and o of tokens (phase "hash"), or one
\* Set of ids (phase "set"), and then makes one more call (phase "asked").
HashReturns(t, r, o, br) ==
    /\ tables' = t
    /\ ret' = r
    /\ op' = o
    /\ arg' = 0
    /\ branch' = br
    /\ UNCHANGED <<heap, sets, fault, A, B, filled>>

DoHashInsert(x, item) ==
    /\ phase = "hash"
    /\ HashReturns([tables EXCEPT !.hash[x] = HashSetInsert(@, item).m],
                   Returned, "HashSet.Insert", x)
    /\ UNCHANGED phase

DoHashRemove(x, item) ==
    /\ phase = "hash"
    /\ HashReturns([tables EXCEPT !.hash[x] = HashSetRemove(@, item).m],
                   Returned, "HashSet.Remove", x)
    /\ UNCHANGED phase

\* s.EqualSlice(items) on a HashSet, by a caller that has no other set.
CallHashEqualSlice(items) ==
    /\ phase = "hash"
    /\ tables.hash["o"] = NewHashSet
    /\ HashReturns(tables,
                   [Returned EXCEPT !.b = HashSetEqualSlice(tables.hash["s"], items),
                                    !.l = items],
                   "HashSet.EqualSlice", "")
    /\ phase' = "asked"

\* x.Union(o) on HashSets; the result is the HashSet t.
CallHashUnion(x, o) ==
    /\ phase = "hash"
    /\ HashReturns([tables EXCEPT !.hash[Result] =
                        HashSetUnion(tables.hash[x], tables.hash[o])],
                   Returned, "HashSet.Union", x)
    /\ phase' = "asked"

DoSetInsert(item) ==
    /\ phase = "set"
    /\ HashReturns([tables EXCEPT !.set = SetInsert(@, item).m],
                   Returned, "Set.Insert", "")
    /\ UNCHANGED phase

DoSetRemove(item) ==
    /\ phase = "set"
    /\ HashReturns([tables EXCEPT !.set = SetRemove(@, item).m],
                   Returned, "Set.Remove", "")
    /\ UNCHANGED phase

CallSetEqualSlice(items) ==
    /\ phase = "set"
    /\ HashReturns(tables,
                   [Returned EXCEPT !.b = SetEqualSlice(tables.set, items),
                                    !.l = items],
                   "Set.EqualSlice", "")
    /\ phase' = "asked"

InitHash == InitTree /\ phase \in {"hash", "set"}

NextHash ==
    \/ \E x \in {"s", "o"} : \E item \in OtherTokens : DoHashInsert(x, item)
    \/ \E x \in {"s", "o"} : \E item \in OtherTokens : DoHashRemove(x, item)
    \/ \E items \in SeqsOf(OtherTokens) : CallHashEqualSlice(items)
    \/ CallHashUnion("s", "o")
    \/ CallHashUnion("o", "s")
    \/ \E item \in PairTokens : DoSetInsert(item)
    \/ \E item \in PairTokens : DoSetRemove(item)
    \/ \E items \in SeqsOf(PairTokens) : CallSetEqualSlice(items)

SpecHash == InitHash /\ [][NextHash]_vars

\* ------------------------------------------------ properties, HashSet and Set

\* The slice holds one element twice.
HasDuplicate(items) ==
    \E i, j \in 1 .. Len(items) : i # j /\ items[i] = items[j]

\* The items map the call was made on.
Asked_items == IF op = "Set.EqualSlice" THEN tables.set ELSE tables.hash[S]

\* What EqualSlice computes: the slice is as long as the set is large and
\* every item is in the set.
EqualSliceByLength ==
    op \in {"HashSet.EqualSlice", "Set.EqualSlice"} =>
        (ret.b <=>
            /\ Len(ret.l) = len(Asked_items)
            /\ \A i \in 1 .. Len(ret.l) :
                  IF op = "Set.EqualSlice" THEN ret.l[i] \in DOMAIN tables.set
                  ELSE Hash(ret.l[i]) \in DOMAIN tables.hash[S])

\* C23: for HashSet and Set, EqualSlice(items) returns false whenever
\* items contains a duplicate element, for every set and every slice.
C23_EqualSlice ==
    (op \in {"HashSet.EqualSlice", "Set.EqualSlice"} /\ HasDuplicate(ret.l)) => ~ret.b

\* C23 witness: EqualSlice of a Set has returned true for a slice that
\* holds one element twice.
C23_Witness ==
    /\ op = "Set.EqualSlice"
    /\ HasDuplicate(ret.l)
    /\ ret.b

\* EqualSlice of a HashSet has returned true for a slice that holds one
\* element twice.
HashEqualSliceOfDuplicates ==
    /\ op = "HashSet.EqualSlice"
    /\ HasDuplicate(ret.l)
    /\ ret.b

\* The receiver and the argument of the Union that was called.
Receiver == tables.hash[branch]

Argument == tables.hash[IF branch = S THEN O ELSE S]

\* What HashSet.Union computes: the result holds a value for every hash of
\* either operand, that of the argument where the argument has one.
UnionArgumentFirst ==
    op = "HashSet.Union" =>
        /\ DOMAIN tables.hash[Result] = DOMAIN Receiver \cup DOMAIN Argument
        /\ \A key \in DOMAIN Argument : tables.hash[Result][key] = Argument[key]
        /\ \A key \in DOMAIN Receiver \ DOMAIN Argument :
              tables.hash[Result][key] = Receiver[key]

\* C24: in HashSet.Union the elements of the receiver take priority over
\* those of the argument: for a hash that both s and o hold, s.Union(o)
\* holds the element of s, and o.Union(s) holds the element of o.
C24_UnionPriority ==
    op = "HashSet.Union" =>
        \A key \in DOMAIN Receiver : tables.hash[Result][key] = Receiver[key]

\* C24 witness: Union was called on sets holding different elements of one
\* hash, and the result holds the element of the argument.
C24_Witness ==
    /\ op = "HashSet.Union"
    /\ \E key \in DOMAIN Receiver \cap DOMAIN Argument :
          /\ Receiver[key] # Argument[key]
          /\ tables.hash[Result][key] = Argument[key]

\* The encoded sequence does not decode.
Malformed(data) == \E i \in 1 .. Len(data) : data[i] \in {BadSyntax, BadType}

\* C21: when decoding the encoded sequence fails, UnmarshalJSON returns
\* the decode error and the set is exactly as it was before the call: no
\* element of the malformed input has been inserted.
C21_UnmarshalJSON ==
    [][(Asked("UnmarshalJSON") /\ Malformed(ret'.l)) =>
            /\ branch' = DecodeError
            /\ fault' = NoFault
            /\ Same(S)
            /\ Elems(WorldNext, S) = Elems(World, S)]_vars

\* C21 witness: UnmarshalJSON has returned the decode error for a sequence
\* in which an element that the set does not hold comes before the value
\* that does not decode.
C21_Witness ==
    /\ op = "UnmarshalJSON"
    /\ branch = DecodeError
    /\ Len(ret.l) = 2
    /\ ret.l[1] \in PairTokens \ A
    /\ ret.l[2] = BadType
    /\ A # {}

\* s.ContainsSlice(items) is true exactly when s holds an equal element
\* for every item.
ContainsSliceHoldsAll ==
    op = "ContainsSlice" =>
        /\ ret.panic = NoFault
        /\ ret.b <=> (\A i \in 1 .. Len(ret.l) : \E a \in A : comparison(a, ret.l[i]) = 0)

\* C22: s.ContainsSlice(items) returns whether s contains the same set of
\* elements that are in items, which may hold duplicates: it is true
\* exactly when the set of distinct elements of items equals the set s.
C22_ContainsSlice ==
    op = "ContainsSlice" =>
        /\ ret.panic = NoFault
        /\ ret.b <=> Ids(Range(ret.l)) = Ids(A)

\* C22 witness: ContainsSlice has returned true for items that leave out
\* an element of s.
C22_Witness ==
    /\ op = "ContainsSlice"
    /\ ret.b
    /\ ret.l # <<>>
    /\ Ids(A) \ Ids(Range(ret.l)) # {}

=============================================================================
